---- MODULE Spec2Model ----
(***************************************************************************)
(* Verification model of the greedy ambulance-location heuristic,          *)
(* OptimisationModelQ3 (src/src/or2/week6_q3.py).                          *)
(*                                                                         *)
(* A run of run_heuristic_optimisation(distance_df, population_df) on an   *)
(* object built with OptimisationModelQ3(m) is a behaviour: the while loop *)
(* of line 25 calls heuristic_assignment once per step, and the run ends   *)
(* by returning max_pwft or by raising.                                    *)
(*                                                                         *)
(* Text is modelled as the sequence of its characters' code points, so     *)
(* that str(10) = "10" sorts before str(2) = "2" exactly as in Python.     *)
(***************************************************************************)
EXTENDS Integers, Sequences, FiniteSets, TLC

VARIABLES
    distance_df,    \* the caller's district-to-district distance table
    population_df,  \* the caller's population table, one row per district
    m,              \* self.m, the number of ambulances to set up
    m_assigned,     \* the list of districts chosen so far (line 21)
    max_pwft,       \* the local max_pwft: <<>> while unbound, <<v>> once bound
    pc,             \* "loop" | "done" | "raised"
    err,            \* the exception that ended the run, "" when none
    returned,       \* the value of `return max_pwft`: <<>> until the run returns
    second,         \* the locals of a second call made on the same model object
    files,          \* the local file system: path -> what was written there
    tables,         \* the database: table name -> the rows of the table
    containers,     \* the blob storage: container name -> blob name -> content
    call,           \* the last call made on a data connector, with what it returned
    yaml_implicit_resolvers,
                    \* the yaml classes the '!pathex' resolver was added to
    model,          \* a solver-backed model object (Q1 or Q2) and its build_and_run
    clients         \* each database client's call of log_run: where it stands

\* The state of the Python process besides the heuristic's and the stores'.
processVars == <<yaml_implicit_resolvers, model, clients>>

\* The state the data connectors work on.
ioVars == <<files, tables, containers, call, processVars>>

vars == <<distance_df, population_df, m, m_assigned, max_pwft, pc, err, returned,
          second, ioVars>>

-----------------------------------------------------------------------------
(* Bounds of the input space *)

\* Population values range over 1..MaxWeight.
MaxWeight == 2

\* self.m ranges over -1..MaxUnits; the tables hold three districts.
MaxUnits == 4

\* The distances between two different districts.
DistVals == {10, 15, 20}

\* The District columns of the distance table: single-digit ids, and ids with
\* different numbers of digits.
IndexChoices == {<<1, 2, 3>>, <<2, 3, 10>>}

-----------------------------------------------------------------------------
(* Values of the Python runtime *)

\* float('nan'): what pandas' min() gives for an empty Series or Index.
nan == 0 - 1

\* The code point of the character for decimal digit d: ord('0') + d.
DigitChar(d) == 48 + d

\* str(n) for an integer n >= 0, as the sequence of its code points.
RECURSIVE str(_)
str(n) == IF n < 10 THEN <<DigitChar(n)>>
          ELSE Append(str(n \div 10), DigitChar(n % 10))

\* Python's a < b on two str values: code-point lexicographic order.
StrLess(a, b) ==
    \E k \in 1..(Len(a) + 1) :
        /\ \A j \in 1..(k - 1) : j <= Len(b) /\ a[j] = b[j]
        /\ \/ k = Len(a) + 1 /\ Len(b) >= k
           \/ k <= Len(a) /\ k <= Len(b) /\ a[k] < b[k]

\* x in lst, for a Python list lst.
InList(x, lst) == \E k \in 1..Len(lst) : lst[k] = x

\* max and min of a non-empty set of numbers.
SetMax(S) == CHOOSE x \in S : \A y \in S : y <= x
SetMin(S) == CHOOSE x \in S : \A y \in S : x <= y

\* float('nan') as an element of the list m_assigned: equal to no str.
nanLabel == <<nan>>

-----------------------------------------------------------------------------
(* The pandas operations heuristic_assignment performs, lines 47-61.        *)
(* A distance table is [index, columns, values]: index is the District     *)
(* column (integers, made the index by set_index), columns the labels of   *)
(* the remaining columns (text, from the file's header) and values[r][c]   *)
(* the distance in row r, column c. A population table is a sequence of    *)
(* rows [District, Population].                                            *)

\* distance_df.index.astype(str)
astype_str(index) == [k \in 1..Len(index) |-> str(index[k])]

\* Line 48 without its filter: every district of the index, assigned or not.
districts_without_ambulance_Unfiltered(ddf, assigned) == astype_str(ddf.index)

\* Line 48: the districts of the index, as text, that are not in m_assigned.
districts_without_ambulance(ddf, assigned) ==
    LET NotAssigned(x) == ~InList(x, assigned)
    IN  SelectSeq(astype_str(ddf.index), NotAssigned)

\* population_df['Population'].values: the column as a bare array, which
\* keeps the rows' order and drops their District.
PopulationValues(pdf) == [r \in 1..Len(pdf) |-> pdf[r].Population]

\* Line 51, x * values for a column x of n rows and an array of p values:
\* numpy pairs them by position, repeats a single value, and raises
\* ValueError for any other two lengths.
ApplyRaises(ddf, pdf) ==
    /\ Len(ddf.columns) > 0
    /\ Len(pdf) # Len(ddf.index)
    /\ Len(pdf) # 1

\* The population value line 51 multiplies into row r of the distance table.
weight(pdf, r) ==
    IF Len(pdf) = 1 THEN PopulationValues(pdf)[1] ELSE PopulationValues(pdf)[r]

\* Line 51: pwft_df[r][c] = distance_df[r][c] * (the population value of row r).
pwft_df(ddf, pdf) ==
    [r \in 1..Len(ddf.index) |->
        [c \in 1..Len(ddf.columns) |-> ddf.values[r][c] * weight(pdf, r)]]

\* Lines 52-54, the column part of .loc: a label that is no column of the
\* table raises KeyError.
LocRaises(ddf, dwa) ==
    \E k \in 1..Len(dwa) : ~InList(dwa[k], ddf.columns)

\* The row part of .loc left out: every row of the table is kept.
LocRows_AllRows(ddf, dwa) == 1..Len(ddf.index)

\* Lines 52-54, the row part of .loc: the rows whose District, as text, is
\* in districts_without_ambulance.
LocRows(ddf, dwa) ==
    {r \in 1..Len(ddf.index) : InList(astype_str(ddf.index)[r], dwa)}

\* The position of the column labelled label.
ColumnOf(ddf, label) == CHOOSE c \in 1..Len(ddf.columns) : ddf.columns[c] = label

\* pwft_df.min(axis=0) in the place of pwft_df.max(axis=0): each column's
\* minimum over the selected rows.
max_pwft_df_ColumnMin(ddf, pdf, dwa) ==
    [label \in {dwa[k] : k \in 1..Len(dwa)} |->
        SetMin({pwft_df(ddf, pdf)[r][ColumnOf(ddf, label)] : r \in LocRows(ddf, dwa)})]

\* Line 55: pwft_df.max(axis=0) of the selected block, a Series indexed by the
\* labels of districts_without_ambulance: each column's maximum over the
\* selected rows.
max_pwft_df(ddf, pdf, dwa) ==
    [label \in {dwa[k] : k \in 1..Len(dwa)} |->
        SetMax({pwft_df(ddf, pdf)[r][ColumnOf(ddf, label)] : r \in LocRows(ddf, dwa)})]

\* Series.min(): the least value, nan for an empty Series.
SeriesMin(series) ==
    IF DOMAIN series = {} THEN nan
    ELSE SetMin({series[label] : label \in DOMAIN series})

\* Index.max() in the place of Index.min(): the greatest label in str order.
IndexMin_Greatest(labels) ==
    IF labels = {} THEN nanLabel
    ELSE CHOOSE x \in labels : \A y \in labels : x = y \/ StrLess(y, x)

\* Index.min() of an Index of text labels: the least label in str order, nan
\* for an empty Index.
IndexMin(labels) ==
    IF labels = {} THEN nanLabel
    ELSE CHOOSE x \in labels : \A y \in labels : x = y \/ StrLess(x, y)

\* Line 58: max_pwft_df.index[max_pwft_df == max_pwft_df.min()].min()
min_max_pwft_district(series) ==
    IndexMin({label \in DOMAIN series : series[label] = SeriesMin(series)})

\* max_pwft set by the first iteration only and kept by the later ones.
NewMaxPwft_KeepFirst(series) ==
    IF max_pwft = <<>> THEN SeriesMin(series) ELSE max_pwft[1]

\* max_pwft never raised: the lesser of the cost of this iteration and of the
\* cost recorded before it.
NewMaxPwft_NeverGreater(series) ==
    IF max_pwft = <<>> THEN SeriesMin(series)
    ELSE SetMin({max_pwft[1], SeriesMin(series)})

\* Line 61: max_pwft = max_pwft_df.min()
NewMaxPwft(series) == SeriesMin(series)

\* heuristic_assignment(distance_df, population_df, m_assigned), lines 33-63:
\* the exception it raises ("" when none) and the pair it returns.
heuristic_assignment(ddf, pdf, assigned) ==
    LET dwa    == districts_without_ambulance(ddf, assigned)
        series == max_pwft_df(ddf, pdf, dwa)
    IN  IF ApplyRaises(ddf, pdf)
          THEN [raises |-> "ValueError", m_assigned |-> assigned, max_pwft |-> <<>>]
        ELSE IF LocRaises(ddf, dwa)
          THEN [raises |-> "KeyError", m_assigned |-> assigned, max_pwft |-> <<>>]
        ELSE [raises     |-> "",
              m_assigned |-> Append(assigned, min_max_pwft_district(series)),
              max_pwft   |-> <<NewMaxPwft(series)>>]

-----------------------------------------------------------------------------
(* The inputs of a run *)

Positions == 1..3

\* Every distance between two different districts is drawn from DistVals and
\* a district is at distance 0 from itself.
SymmetricValues ==
    {[r \in Positions |-> [c \in Positions |->
          IF r = c THEN 0 ELSE IF r < c THEN f[<<r, c>>] ELSE f[<<c, r>>]]] :
       f \in [{p \in Positions \X Positions : p[1] < p[2]} -> DistVals]}

AsymmetricValues ==
    {[r \in Positions |-> [c \in Positions |->
          IF r = c THEN 0 ELSE f[<<r, c>>]]] :
       f \in [{p \in Positions \X Positions : p[1] # p[2]} -> DistVals]}

\* The table read from a file whose header is District,<id>,<id>,...
DistanceTable(index, values) ==
    [index |-> index, columns |-> astype_str(index), values |-> values]

\* s without its k-th element.
Without(s, k) == [j \in 1..(Len(s) - 1) |-> IF j < k THEN s[j] ELSE s[j + 1]]

\* The same table without its k-th distance column.
WithoutColumn(ddf, k) ==
    [index   |-> ddf.index,
     columns |-> Without(ddf.columns, k),
     values  |-> [r \in 1..Len(ddf.index) |-> Without(ddf.values[r], k)]]

Weights == [Positions -> 1..MaxWeight]

\* The orders in which the population file may list the districts.
RowOrders == {<<1, 2, 3>>, <<2, 1, 3>>, <<3, 1, 2>>}

\* The population table that lists the districts of index in the order order,
\* district index[k] having population w[k].
PopulationTable(index, w, order) ==
    [j \in 1..Len(order) |-> [District |-> index[order[j]], Population |-> w[order[j]]]]

UnitCounts == (0 - 1)..MaxUnits

\* The caller passes the tables ddf and pdf to a model built for units
\* ambulances.
Called(ddf, pdf, units) ==
    /\ distance_df = ddf
    /\ population_df = pdf
    /\ m = units

\* Complete tables: every district has its distance column and its population
\* row; the population rows in any of RowOrders.
CompleteInputs ==
    \E index \in IndexChoices, values \in SymmetricValues, w \in Weights,
       order \in RowOrders, units \in UnitCounts :
        Called(DistanceTable(index, values), PopulationTable(index, w, order), units)

\* Complete tables whose distances are not symmetric.
AsymmetricInputs ==
    \E values \in AsymmetricValues, w \in {<<1, 1, 1>>, <<1, MaxWeight, 1>>},
       units \in 1..3 :
        Called(DistanceTable(<<1, 2, 3>>, values),
               PopulationTable(<<1, 2, 3>>, w, <<1, 2, 3>>), units)

\* Population tables that lack the row of district 3: the two other rows
\* alone, or with the row of a district that is not in the distance table.
LackingRow(pdf) ==
    {Without(pdf, 3), [pdf EXCEPT ![3].District = 4]}

\* Tables in which a district has no entry: the population table lacks a
\* district's row, or the distance table lacks a district's column.
IncompleteInputs ==
    \E values \in SymmetricValues, w \in Weights, units \in 1..3 :
        LET ddf == DistanceTable(<<1, 2, 3>>, values)
            pdf == PopulationTable(<<1, 2, 3>>, w, <<1, 2, 3>>)
        IN  \/ \E lacking \in LackingRow(pdf) : Called(ddf, lacking, units)
            \/ \E k \in {2, 3} : Called(WithoutColumn(ddf, k), pdf, units)

-----------------------------------------------------------------------------
(* run_heuristic_optimisation, lines 17-30 *)

\* OptimisationModelQ3(m).run_heuristic_optimisation(distance_df, population_df)
\* is called: line 21 has run and the loop test of line 25 is next.
\* No second call has been made.
NotCalled ==
    [pc |-> "idle", m_assigned |-> <<>>, max_pwft |-> <<>>, err |-> "",
     returned |-> <<>>, called_at |-> <<>>]

\* No call has been made on a data connector.
NoCall == [op |-> "none"]

\* No solver-backed model object has been built.
NoModel == [pc |-> "none"]

\* The clients of the database, none of which is in a call of log_run.
Clients == {"c1", "c2"}
NoLogRun == [c \in Clients |-> [pc |-> "idle"]]

\* A process that has loaded no YAML file and built no solver-backed model;
\* no client is in a call of log_run.
ProcessIdle ==
    /\ yaml_implicit_resolvers = {}
    /\ model = NoModel
    /\ clients = NoLogRun

\* The data connectors are not in use.
IoIdle ==
    /\ ProcessIdle
    /\ files = <<>>
    /\ tables = <<>>
    /\ containers = <<>>
    /\ call = NoCall

Init ==
    /\ CompleteInputs \/ AsymmetricInputs \/ IncompleteInputs
    /\ m_assigned = <<>>
    /\ max_pwft = <<>>
    /\ pc = "loop"
    /\ err = ""
    /\ returned = <<>>
    /\ second = NotCalled
    /\ IoIdle

\* The loop test one short: the loop stops with one ambulance left to assign.
LoopTest_OneShort == Len(m_assigned) < m - 1

\* The loop test one late: the loop makes one iteration more.
LoopTest_OneMore == Len(m_assigned) <= m

\* Line 25: while len(m_assigned) < self.m
LoopTest == Len(m_assigned) < m

\* The products of line 51 written into the table that was passed, no copy of
\* it having been made.
caller_distance_df_Scaled(ddf, pdf) == [ddf EXCEPT !.values = pwft_df(ddf, pdf)]

\* Lines 44 and 51-54: the caller's distance table after a call of
\* heuristic_assignment. Line 44 rebinds the parameter to a copy, and apply
\* and .loc[...].copy() build pwft_df as new tables: the table that was
\* passed holds what it held.
caller_distance_df(ddf, pdf) == ddf

\* Lines 45 and 51: the caller's population table after a call of
\* heuristic_assignment. Line 45 rebinds the parameter to a copy, of which
\* line 51 reads the Population column.
caller_population_df(pdf) == pdf

\* Lines 25-26: the loop test holds and heuristic_assignment returns.
Iterate ==
    /\ pc = "loop"
    /\ LoopTest
    /\ LET r == heuristic_assignment(distance_df, population_df, m_assigned)
       IN  /\ r.raises = ""
           /\ m_assigned' = r.m_assigned
           /\ max_pwft' = r.max_pwft
    /\ distance_df' = caller_distance_df(distance_df, population_df)
    /\ population_df' = caller_population_df(population_df)
    /\ UNCHANGED <<m, pc, err, returned, second, ioVars>>

\* Lines 25-26: the loop test holds and heuristic_assignment raises; the
\* exception leaves run_heuristic_optimisation.
IterateRaises ==
    /\ pc = "loop"
    /\ LoopTest
    /\ LET r == heuristic_assignment(distance_df, population_df, m_assigned)
       IN  /\ r.raises # ""
           /\ err' = r.raises
    /\ pc' = "raised"
    /\ UNCHANGED <<distance_df, population_df, m, m_assigned, max_pwft, returned, second, ioVars>>

\* Lines 25-30: the loop test fails, the log line reads m_assigned and
\* max_pwft, and max_pwft is returned.
Return ==
    /\ pc = "loop"
    /\ ~LoopTest
    /\ max_pwft # <<>>
    /\ returned' = max_pwft
    /\ pc' = "done"
    /\ UNCHANGED <<distance_df, population_df, m, m_assigned, max_pwft, err, second, ioVars>>

\* Lines 25-28: the loop test fails before any iteration has bound max_pwft,
\* and the log line's read of max_pwft raises UnboundLocalError.
ReturnRaises ==
    /\ pc = "loop"
    /\ ~LoopTest
    /\ max_pwft = <<>>
    /\ err' = "UnboundLocalError"
    /\ pc' = "raised"
    /\ UNCHANGED <<distance_df, population_df, m, m_assigned, max_pwft, returned, second, ioVars>>

\* run_heuristic_optimisation as a function of its inputs, for the inputs on
\* which no iteration raises: the list and the cost it ends with, from the
\* list assigned and the cost cst of the iterations already made.
RECURSIVE run_heuristic_optimisation(_, _, _, _, _)
run_heuristic_optimisation(ddf, pdf, units, assigned, cst) ==
    IF Len(assigned) < units
      THEN LET r == heuristic_assignment(ddf, pdf, assigned)
           IN  run_heuristic_optimisation(ddf, pdf, units, r.m_assigned, r.max_pwft)
      ELSE [m_assigned |-> assigned, max_pwft |-> cst]

Next == Iterate \/ IterateRaises \/ Return \/ ReturnRaises

Spec == Init /\ [][Next]_vars

-----------------------------------------------------------------------------
(* A second call of run_heuristic_optimisation on the same model object and
   the same two tables, made at any moment of the first call and running its
   iterations between those of the first. *)

\* The inputs of the two calls.
CallInputs ==
    \/ \E values \in SymmetricValues, w \in Weights, units \in 0..MaxUnits :
           Called(DistanceTable(<<2, 3, 10>>, values),
                  PopulationTable(<<2, 3, 10>>, w, <<1, 2, 3>>), units)
    \/ \E values \in SymmetricValues :
           Called(WithoutColumn(DistanceTable(<<1, 2, 3>>, values), 3),
                  PopulationTable(<<1, 2, 3>>, <<1, 1, 1>>, <<1, 2, 3>>), 2)

InitCalls ==
    /\ CallInputs
    /\ m_assigned = <<>>
    /\ max_pwft = <<>>
    /\ pc = "loop"
    /\ err = ""
    /\ returned = <<>>
    /\ second = NotCalled
    /\ IoIdle

\* The second call given the list of the first call to work on.
NewList_OfFirstCall == m_assigned

\* Line 21: m_assigned = list(), a new empty list for every call.
NewList == <<>>

\* Lines 17-21: the second call is made; called_at records where the first
\* call was at that moment (its pc and the length of its list).
SecondCall ==
    /\ second.pc = "idle"
    /\ second' = [NotCalled EXCEPT !.pc = "loop",
                                   !.m_assigned = NewList,
                                   !.called_at = <<pc, Len(m_assigned)>>]
    /\ UNCHANGED <<distance_df, population_df, m, m_assigned, max_pwft, pc, err,
                   returned, ioVars>>

\* The second call passing the list of the first call on line 26.
LocalList_OfFirstCall == m_assigned

\* Line 26: the m_assigned that the second call passes to
\* heuristic_assignment is its own local.
LocalList == second.m_assigned

\* Lines 25-26 of the second call: an iteration that returns.
SecondIterate ==
    /\ second.pc = "loop"
    /\ Len(second.m_assigned) < m
    /\ LET r == heuristic_assignment(distance_df, population_df, LocalList)
       IN  /\ r.raises = ""
           /\ second' = [second EXCEPT !.m_assigned = r.m_assigned,
                                       !.max_pwft = r.max_pwft]
    /\ distance_df' = caller_distance_df(distance_df, population_df)
    /\ population_df' = caller_population_df(population_df)
    /\ UNCHANGED <<m, m_assigned, max_pwft, pc, err, returned, ioVars>>

\* Lines 25-26 of the second call: an iteration that raises.
SecondIterateRaises ==
    /\ second.pc = "loop"
    /\ Len(second.m_assigned) < m
    /\ LET r == heuristic_assignment(distance_df, population_df, LocalList)
       IN  /\ r.raises # ""
           /\ second' = [second EXCEPT !.pc = "raised", !.err = r.raises]
    /\ UNCHANGED <<distance_df, population_df, m, m_assigned, max_pwft, pc, err,
                   returned, ioVars>>

\* Lines 25-30 of the second call: the loop test fails and max_pwft is
\* returned.
SecondReturn ==
    /\ second.pc = "loop"
    /\ ~(Len(second.m_assigned) < m)
    /\ second.max_pwft # <<>>
    /\ second' = [second EXCEPT !.pc = "done", !.returned = second.max_pwft]
    /\ UNCHANGED <<distance_df, population_df, m, m_assigned, max_pwft, pc, err,
                   returned, ioVars>>

\* Lines 25-28 of the second call: the loop test fails with max_pwft unbound.
SecondReturnRaises ==
    /\ second.pc = "loop"
    /\ ~(Len(second.m_assigned) < m)
    /\ second.max_pwft = <<>>
    /\ second' = [second EXCEPT !.pc = "raised", !.err = "UnboundLocalError"]
    /\ UNCHANGED <<distance_df, population_df, m, m_assigned, max_pwft, pc, err,
                   returned, ioVars>>

NextCalls ==
    \/ Iterate \/ IterateRaises \/ Return \/ ReturnRaises
    \/ SecondCall
    \/ SecondIterate \/ SecondIterateRaises \/ SecondReturn \/ SecondReturnRaises

SpecCalls == InitCalls /\ [][NextCalls]_vars

-----------------------------------------------------------------------------
(* The vocabulary of the properties: sites are the labels m_assigned holds. *)

\* The sites of the run.
Sites == {astype_str(distance_df.index)[k] : k \in 1..Len(distance_df.index)}

\* The row of the distance table that belongs to site i.
RowOfSite(i) ==
    CHOOSE r \in 1..Len(distance_df.index) : astype_str(distance_df.index)[r] = i

\* distance(i, c): the entry of the distance table in site i's row and site
\* c's column.
distance(i, c) == distance_df.values[RowOfSite(i)][ColumnOf(distance_df, c)]

\* cost(i, c) = distance(i, c) * weight(i), weight(i) being the population
\* value the heuristic holds for site i's row.
cost(i, c) == distance(i, c) * weight(population_df, RowOfSite(i))

\* The worst-case cost of candidate c over the sites of U.
WorstCase(c, U) == SetMax({cost(i, c) : i \in U})

\* The sites that were unassigned when iteration k began.
Unassigned(k) == Sites \ {m_assigned[j] : j \in 1..(k - 1)}

\* The candidates of U that achieve the minimum worst-case cost over U.
Best(U) == {c \in U : \A d \in U : WorstCase(c, U) <= WorstCase(d, U)}

\* C1: in every iteration that began with a site unassigned, the site
\* appended is one of the unassigned sites and minimises, among them, the
\* maximum over the unassigned sites i of distance(i, c) * weight(i);
\* assigned sites are neither candidates nor scored.
C1_GreedyMinMaxOverUnassigned ==
    \A k \in 1..Len(m_assigned) :
        Unassigned(k) # {} =>
            /\ m_assigned[k] \in Unassigned(k)
            /\ \A c \in Unassigned(k) :
                  WorstCase(m_assigned[k], Unassigned(k)) <= WorstCase(c, Unassigned(k))

\* A later iteration appended a site that a score over all the sites, the
\* assigned ones included, would not have chosen.
C1_Witness ==
    \E k \in 2..Len(m_assigned) :
        /\ Unassigned(k) # {}
        /\ m_assigned[k] \in Best(Unassigned(k))
        /\ \E c \in Unassigned(k) :
              WorstCase(c, Sites) < WorstCase(m_assigned[k], Sites)

\* C2: when several unassigned candidates achieve the minimum worst-case
\* cost of an iteration, the site appended is one of them, and no other tied
\* candidate has a smaller identifier (the labels compared as text).
C2_TieBrokenToSmallestLabel ==
    \A k \in 1..Len(m_assigned) :
        Cardinality(Best(Unassigned(k))) >= 2 =>
            /\ m_assigned[k] \in Best(Unassigned(k))
            /\ \A c \in Best(Unassigned(k)) : ~StrLess(c, m_assigned[k])

\* An iteration met a tie, some candidate was outside the tied set, and the
\* tied candidate appended is not the one the distance table lists first.
C2_Witness ==
    \E k \in 1..Len(m_assigned) :
        /\ Cardinality(Best(Unassigned(k))) >= 2
        /\ Best(Unassigned(k)) # Unassigned(k)
        /\ m_assigned[k] \in Best(Unassigned(k))
        /\ \E c \in Best(Unassigned(k)) : RowOfSite(c) < RowOfSite(m_assigned[k])

\* Every site has its column in the distance table and exactly one row in the
\* population table, which has no other row.
CompleteTables ==
    /\ \A i \in Sites : InList(i, distance_df.columns)
    /\ Len(population_df) = Len(distance_df.index)
    /\ \A r \in 1..Len(distance_df.index) :
          \E j \in 1..Len(population_df) : population_df[j].District = distance_df.index[r]

\* Valid input: complete tables and 1 <= unit_count <= number of sites.
ValidInput ==
    /\ CompleteTables
    /\ 1 <= m
    /\ m <= Cardinality(Sites)

\* C3: on valid input the run does not raise, and when it has finished
\* m_assigned holds exactly m sites; when m is the number of sites, every site
\* is in it.
C3_ExactlyUnitCountSites ==
    ValidInput =>
        /\ pc # "raised"
        /\ pc = "done" =>
              /\ Len(m_assigned) = m
              /\ \A k \in 1..Len(m_assigned) : m_assigned[k] \in Sites
              /\ m = Cardinality(Sites) => {m_assigned[k] : k \in 1..m} = Sites

\* A run with as many ambulances as sites has finished.
C3_Witness ==
    /\ ValidInput
    /\ pc = "done"
    /\ m = Cardinality(Sites)
    /\ Len(m_assigned) = m

\* C4: on valid input no site is in m_assigned twice, in any state of the run.
C4_NoSiteTwice ==
    ValidInput =>
        \A j, k \in 1..Len(m_assigned) : j # k => m_assigned[j] # m_assigned[k]

\* Three iterations have each appended a site.
C4_Witness ==
    /\ ValidInput
    /\ Len(m_assigned) = 3
    /\ Cardinality({m_assigned[k] : k \in 1..3}) = 3

\* The cost of the assignment made: the greatest, over all the sites, of
\* weight(i) times the distance from i to the nearest assigned site.
TrueCost ==
    SetMax({SetMin({cost(i, m_assigned[k]) : k \in 1..Len(m_assigned)}) : i \in Sites})

\* C5: the cost returned is the worst-case cost of the site the final
\* iteration chose, over the sites unassigned when that iteration began.
C5_ReturnsFinalIterationCost ==
    (pc = "done" /\ Unassigned(Len(m_assigned)) # {}) =>
        returned = <<WorstCase(m_assigned[Len(m_assigned)], Unassigned(Len(m_assigned)))>>

\* A run of two or more iterations has returned a cost that is neither the
\* first iteration's nor the cost of the whole assignment.
C5_Witness ==
    /\ pc = "done"
    /\ Len(m_assigned) >= 2
    /\ Unassigned(Len(m_assigned)) # {}
    /\ returned # <<WorstCase(m_assigned[1], Sites)>>
    /\ returned # <<TrueCost>>

\* C6: when unit_count exceeds the number of sites the run fails and returns
\* no result.
C6_TooManyUnitsReturnsNothing ==
    m > Cardinality(Sites) => pc # "done"

\* C7: when unit_count is below 1 the run makes no iteration and fails with
\* the InvalidConfiguration error of a validation of the unit count, not with
\* an error of reading a result.
C7_TooFewUnitsIsInvalidConfiguration ==
    m < 1 =>
        /\ m_assigned = <<>>
        /\ pc # "done"
        /\ pc = "raised" => err = "InvalidConfiguration"

\* C8: when a site has no row in the population table or no column in the
\* distance table, the run fails at once: no iteration appends a site and no
\* result is returned.
C8_MissingEntryFailsAtOnce ==
    ~CompleteTables =>
        /\ m_assigned = <<>>
        /\ pc # "done"

\* The population recorded for the district with identifier id.
PopulationOf(id) ==
    (CHOOSE row \in {population_df[j] : j \in 1..Len(population_df)} :
        row.District = id).Population

\* The population table with its rows listed in the order of the distance
\* table's rows.
RowsInDistanceOrder ==
    [r \in 1..Len(distance_df.index) |->
        [District   |-> distance_df.index[r],
         Population |-> PopulationOf(distance_df.index[r])]]

\* C9: on valid input the run ends with the list and the cost it ends with
\* when the population rows are listed in the order of the distance rows:
\* each site's weight is the one recorded under its identifier, whatever the
\* order of the rows.
C9_RowOrderDoesNotMatter ==
    (ValidInput /\ pc = "done") =>
        LET ref == run_heuristic_optimisation(distance_df, RowsInDistanceOrder, m,
                                              <<>>, <<>>)
        IN  /\ m_assigned = ref.m_assigned
            /\ returned = ref.max_pwft

\* The 3-site example: A, B, C are districts 1, 2, 3; A-B = 10, A-C = 20,
\* B-C = 15, self-distance 0, every weight 1.
IsExample ==
    /\ distance_df = DistanceTable(<<1, 2, 3>>,
                                   <<<<0, 10, 20>>, <<10, 0, 15>>, <<20, 15, 0>>>>)
    /\ population_df = PopulationTable(<<1, 2, 3>>, <<1, 1, 1>>, <<1, 2, 3>>)

\* C10: on the example the candidates' worst-case costs are A 20, B 15, C 20;
\* with unit_count 1 the run chooses B and returns 15, and with unit_count 2
\* it chooses B then A and returns 20.
C10_ThreeSiteExample ==
    IsExample =>
        /\ WorstCase(str(1), Sites) = 20
        /\ WorstCase(str(2), Sites) = 15
        /\ WorstCase(str(3), Sites) = 20
        /\ (pc = "done" /\ m = 1) => (m_assigned = <<str(2)>> /\ returned = <<15>>)
        /\ (pc = "done" /\ m = 2) =>
              (m_assigned = <<str(2), str(1)>> /\ returned = <<20>>)

\* The run on the example with unit_count 2 has returned, A and C having tied
\* at 20 in its second iteration.
C10_Witness ==
    /\ IsExample
    /\ pc = "done"
    /\ m = 2
    /\ Best(Unassigned(2)) = {str(1), str(3)}

\* The guards of Iterate and Return: the step the run can take next is an
\* iteration that does not raise, or the return.
CanIterateOrReturn ==
    IF LoopTest
      THEN heuristic_assignment(distance_df, population_df, m_assigned).raises = ""
      ELSE max_pwft # <<>>

\* C11: on valid input the loop terminates: while the run has not returned
\* the list holds at most unit_count sites and the next step is an iteration
\* or the return, no step raises, every iteration appends exactly one site
\* and keeps the sites chosen before it as they were, and the run returns
\* exactly when the list holds unit_count sites (at most the number of
\* sites), leaving the list as it is. Each iteration so brings the list one
\* site nearer to unit_count, and the run ends after unit_count of them.
C11_LoopTerminates ==
    /\ [](ValidInput /\ pc = "loop" => Len(m_assigned) <= m /\ CanIterateOrReturn)
    /\ [][ValidInput =>
            /\ pc' # "raised"
            /\ pc' = "loop" =>
                  /\ Len(m_assigned) < m
                  /\ Len(m_assigned') = Len(m_assigned) + 1
                  /\ SubSeq(m_assigned', 1, Len(m_assigned)) = m_assigned
                  /\ m_assigned'[Len(m_assigned')] \in Sites
            /\ pc' = "done" =>
                  /\ m_assigned' = m_assigned
                  /\ Len(m_assigned) = m
                  /\ m <= Cardinality(Sites)]_vars

\* A run on valid input has returned after as many iterations as there are
\* sites.
C11_Witness ==
    /\ ValidInput
    /\ pc = "done"
    /\ m = Cardinality(Sites)
    /\ Len(m_assigned) = m

\* C13: no step of run_heuristic_optimisation changes the caller's distance
\* table or the caller's population table: after any number of iterations
\* every entry of both tables has the value it had before the call.
C13_CallerTablesUnchanged ==
    [][distance_df' = distance_df /\ population_df' = population_df]_vars

\* A run has made two iterations or more and returned, on tables in which
\* the products of line 51 differ from the distances.
C13_Witness ==
    /\ pc = "done"
    /\ Len(m_assigned) >= 2
    /\ pwft_df(distance_df, population_df) # distance_df.values

\* What a call of run_heuristic_optimisation on the tables ends with when it
\* runs alone and none of its iterations raises.
Alone == run_heuristic_optimisation(distance_df, population_df, m, <<>>, <<>>)

\* C12: a second run made after the first run has ended, on the same tables
\* and the same unit_count, ends as the first run did: with the same list of
\* sites and the same cost returned, or with the same exception at the same
\* iteration.
C12_SecondRunRepeatsFirst ==
    (second.called_at # <<>> /\ second.called_at[1] \in {"done", "raised"}
        /\ second.pc \in {"done", "raised"}) =>
            /\ second.pc = pc
            /\ second.m_assigned = m_assigned
            /\ second.returned = returned
            /\ second.err = err

\* The first run chose two sites or more and returned, and the run made
\* after it has returned too.
C12_Witness ==
    /\ second.called_at = <<"done", Len(m_assigned)>>
    /\ Len(m_assigned) >= 2
    /\ second.pc = "done"

\* C14: whatever the order in which two calls make their iterations, a call
\* that has returned holds the list and the cost it ends with when it runs
\* alone, two calls that have both raised raised the same exception at the
\* same iteration, and a call raises only if the other cannot return.
C14_InterleavedCallsRunAsAlone ==
    /\ pc = "done" => (m_assigned = Alone.m_assigned /\ returned = Alone.max_pwft)
    /\ second.pc = "done" =>
          (second.m_assigned = Alone.m_assigned /\ second.returned = Alone.max_pwft)
    /\ (pc = "raised" /\ second.pc = "raised") =>
          (err = second.err /\ m_assigned = second.m_assigned)
    /\ ~(pc = "raised" /\ second.pc = "done")
    /\ ~(pc = "done" /\ second.pc = "raised")

\* The second call was made when the first had chosen one site and had more
\* to choose, the first call chose its last site after the second had chosen
\* its own first, and both have returned.
C14_Witness ==
    /\ second.called_at = <<"loop", 1>>
    /\ pc = "done"
    /\ second.pc = "done"
    /\ Len(m_assigned) >= 2

-----------------------------------------------------------------------------
(* PandasFileConnector, src/base/data_connectors/PandasFileConnector.py.
   Text (paths, file types, column names, the fields of a text file) is a
   sequence of code points, as the labels of the heuristic are. *)

\* The tables saved hold at most as many rows as the tests' sample_dataframe.
SampleLength == 2

\* '.'
Dot == <<46>>
\* ',' and ' ', the separators of to_csv and of TxtFileConnector
Comma == <<44>>
Space == <<32>>

\* The file extensions the connector list names, and one it does not name.
csv == <<99, 115, 118>>
xlsx == <<120, 108, 115, 120>>
feather == <<102, 101, 97, 116, 104, 101, 114>>
json == <<106, 115, 111, 110>>
txt == <<116, 120, 116>>
pkl == <<112, 107, 108>>
pickle == <<112, 105, 99, 107, 108, 101>>
parquet == <<112, 97, 114, 113, 117, 101, 116>>
dat == <<100, 97, 116>>

Extensions == {csv, xlsx, feather, json, txt, pkl, pickle, parquet, dat}

\* The paths the calls name: tmp.<extension>
FilePath(ext) == <<116, 109, 112>> \o Dot \o ext
FilePaths == {FilePath(ext) : ext \in Extensions}

\* None, the value of a call that returns nothing.
None == [kind |-> "None"]

\* A cell of dtype int64 and a cell of dtype object holding text.
Int64(v) == [dtype |-> "int64", value |-> v]
Object(text) == [dtype |-> "object", value |-> text]

\* pd.DataFrame(data=d): the columns in the order of d, and a RangeIndex.
DataFrame(columns, rows) ==
    [kind    |-> "DataFrame",
     columns |-> columns,
     index   |-> [k \in 1..Len(rows) |-> k - 1],
     rows    |-> rows]

\* The rows of the tables saved: an int64 column col1 and an object column
\* col3, whose text is a letter or a numeral.
SampleRows == {<<Int64(1), Object(<<97>>)>>, <<Int64(1), Object(<<49>>)>>}

\* The tables saved, built as the tests' sample_dataframe is.
SampleTables ==
    {DataFrame(<<<<99, 111, 108, 49>>, <<99, 111, 108, 51>>>>, rows) :
        rows \in UNION {[1..n -> SampleRows] : n \in 1..SampleLength}}

\* Line 81: Path(filepath).suffix, the text from the last '.' of the name on,
\* '' when the name has no '.' after its first character or ends with it.
suffix(filepath) ==
    LET dots == {k \in 1..Len(filepath) : filepath[k] = Dot[1]}
    IN  IF dots = {} \/ SetMax(dots) = 1 \/ SetMax(dots) = Len(filepath)
          THEN <<>>
          ELSE SubSeq(filepath, SetMax(dots), Len(filepath))

\* Lines 66-77: the connector of each file type.
connector_list ==
    (Dot \o csv :> "CSVFileConnector") @@ (Dot \o xlsx :> "ExcelFileConnector")
    @@ (Dot \o feather :> "FeatherFileConnector") @@ (Dot \o json :> "JSONFileConnector")
    @@ (Dot \o txt :> "TxtFileConnector") @@ (Dot \o pkl :> "PickleFileConnector")
    @@ (Dot \o pickle :> "PickleFileConnector") @@ (Dot \o parquet :> "ParquetFileConnector")

\* Lines 79-87: _check_filetype asserts that the suffix is a key of the
\* connector list and returns it.
check_filetype(filepath) ==
    [raises |-> suffix(filepath) \notin DOMAIN connector_list,
     value  |-> suffix(filepath)]

\* Lines 89-95: _get_connector asserts that file_type is a key of the
\* connector list and returns its connector.
get_connector(file_type) ==
    IF file_type \in DOMAIN connector_list
      THEN [raises |-> FALSE, connector |-> connector_list[file_type]]
      ELSE [raises |-> TRUE, connector |-> ""]

\* Line 34: file_type if file_type.startswith('.') else '.' + file_type
load_file_type(file_type) ==
    IF Len(file_type) > 0 /\ file_type[1] = Dot[1] THEN file_type ELSE Dot \o file_type

\* Lines 33-35: the connector load works with; file_type <<>> is None.
load_connector(filepath, file_type) ==
    IF file_type = <<>> /\ check_filetype(filepath).raises
      THEN [raises |-> TRUE, connector |-> ""]
      ELSE get_connector(load_file_type(
               IF file_type # <<>> THEN file_type ELSE check_filetype(filepath).value))

\* Lines 57-58: the connector save works with; file_type <<>> is None.
save_connector(filepath, file_type) ==
    IF file_type = <<>> /\ check_filetype(filepath).raises
      THEN [raises |-> TRUE, connector |-> ""]
      ELSE get_connector(
               IF file_type # <<>> THEN file_type ELSE check_filetype(filepath).value)

\* No file at a path, and a file that was opened for writing and left empty.
Absent == [kind |-> "absent"]
EmptyFile == [kind |-> "empty"]

\* **kwargs of save: none, or index=False.
NoKwargs == {}
IndexFalse == {<<"index", FALSE>>}

\* The index argument of to_csv and to_excel, True when it is not passed.
index_arg(kwargs) == kwargs # IndexFalse

\* The text to_csv writes for a cell.
cell_text(cell) == IF cell.dtype = "int64" THEN str(cell.value) ELSE cell.value

\* The header of a written table: the column names, after an empty name for
\* the index when the index is written.
header(data_df, index) ==
    IF index THEN <<<<>>>> \o data_df.columns ELSE data_df.columns

\* data_df.to_csv(filepath, sep=sep, index=index): a header line and one line
\* of fields per row, the row's index label first when the index is written.
to_csv(data_df, sep, index) ==
    [kind   |-> "text",
     sep    |-> sep,
     header |-> header(data_df, index),
     lines  |-> [r \in 1..Len(data_df.rows) |->
                   (IF index THEN <<str(data_df.index[r])>> ELSE <<>>)
                   \o [c \in 1..Len(data_df.columns) |-> cell_text(data_df.rows[r][c])]]]

\* The fields of a line joined by the separator they were written with.
RECURSIVE Join(_, _)
Join(fields, sep) ==
    IF Len(fields) = 0 THEN <<>>
    ELSE IF Len(fields) = 1 THEN fields[1]
    ELSE fields[1] \o sep \o Join(Tail(fields), sep)

\* A line read with the separator sep: its fields, or the whole line as one
\* field when it was written with another separator.
split(file, fields, sep) ==
    IF sep = file.sep THEN fields ELSE <<Join(fields, file.sep)>>

\* A field that reads as an integer, and the integer it reads as.
IsNumeral(text) == Len(text) > 0 /\ \A k \in 1..Len(text) : text[k] \in 48..57

RECURSIVE int(_)
int(text) ==
    IF Len(text) = 0 THEN 0
    ELSE 10 * int(SubSeq(text, 1, Len(text) - 1)) + (text[Len(text)] - 48)

\* The names read_csv and read_excel give the columns: a column without a
\* name in the header is named 'Unnamed: <position>'.
column_names(names) ==
    [c \in 1..Len(names) |->
        IF names[c] = <<>> THEN <<85, 110, 110, 97, 109, 101, 100, 58, 32>> \o str(c - 1) ELSE names[c]]

\* pd.read_csv(filepath, sep=sep): a column whose every field reads as an
\* integer is int64, any other column is object and holds the text.
read_csv(file, sep) ==
    LET names == split(file, file.header, sep)
        lines == [r \in 1..Len(file.lines) |-> split(file, file.lines[r], sep)]
        IsInt(c) == \A r \in 1..Len(lines) : IsNumeral(lines[r][c])
    IN  DataFrame(column_names(names),
                  [r \in 1..Len(lines) |->
                      [c \in 1..Len(names) |->
                          IF IsInt(c) THEN Int64(int(lines[r][c]))
                          ELSE Object(lines[r][c])]])

\* data_df.to_excel(filepath, index=index): a sheet of typed cells, the index
\* labels in a first column when the index is written.
to_excel(data_df, index) ==
    [kind   |-> "xlsx",
     header |-> header(data_df, index),
     cells  |-> [r \in 1..Len(data_df.rows) |->
                   (IF index THEN <<Int64(data_df.index[r])>> ELSE <<>>)
                   \o data_df.rows[r]]]

\* pd.read_excel(filepath): the cells with the types the sheet holds.
read_excel(file) == DataFrame(column_names(file.header), file.cells)

\* data_df.to_dict(orient='records'): one dict per row, column name -> value,
\* in the order of the columns; the index is not part of it.
to_dict(data_df) ==
    [r \in 1..Len(data_df.rows) |->
        [c \in 1..Len(data_df.columns) |-> <<data_df.columns[c], data_df.rows[r][c]>>]]

\* What the connector writes at filepath, whether it raises, and whether the
\* file was written before it raised.
Write(connector, data_df, kwargs) ==
    CASE connector = "CSVFileConnector" ->
           [raises |-> FALSE, written |-> TRUE,
            content |-> to_csv(data_df, Comma, index_arg(kwargs))]
      [] connector = "TxtFileConnector" ->
           [raises |-> FALSE, written |-> TRUE,
            content |-> to_csv(data_df, Space, index_arg(kwargs))]
      [] connector = "ExcelFileConnector" ->
           [raises |-> FALSE, written |-> TRUE,
            content |-> to_excel(data_df, index_arg(kwargs))]
      [] connector = "JSONFileConnector" ->
           IF kwargs = NoKwargs
             THEN [raises |-> FALSE, written |-> TRUE,
                   content |-> [kind |-> "json", data |-> to_dict(data_df)]]
             ELSE [raises |-> TRUE, written |-> TRUE, content |-> EmptyFile]
      [] connector = "ParquetFileConnector" ->
           [raises |-> FALSE, written |-> TRUE,
            content |-> [kind |-> "parquet", table |-> data_df]]
      [] connector = "FeatherFileConnector" ->
           [raises |-> kwargs # NoKwargs, written |-> kwargs = NoKwargs,
            content |-> [kind |-> "feather", table |-> data_df]]
      [] connector = "PickleFileConnector" ->
           [raises |-> kwargs # NoKwargs, written |-> kwargs = NoKwargs,
            content |-> [kind |-> "pickle", table |-> data_df]]
      [] OTHER -> [raises |-> TRUE, written |-> FALSE, content |-> Absent]

\* TxtFileConnector.load reading with the separator of read_csv.
txt_load_sep_Comma == Comma

\* Line 224: def load(cls, filepath, sep=' ', **kwargs)
txt_load_sep == Space

\* What the connector reads from the file: it raises when there is no file,
\* or when the file is not one its reader can parse.
Read(connector, file) ==
    CASE connector = "CSVFileConnector" /\ file.kind = "text" ->
           [raises |-> FALSE, data |-> read_csv(file, Comma)]
      [] connector = "TxtFileConnector" /\ file.kind = "text" ->
           [raises |-> FALSE, data |-> read_csv(file, txt_load_sep)]
      [] connector = "ExcelFileConnector" /\ file.kind = "xlsx" ->
           [raises |-> FALSE, data |-> read_excel(file)]
      [] connector = "JSONFileConnector" /\ file.kind = "json" ->
           [raises |-> FALSE, data |-> [kind |-> "list", items |-> file.data]]
      [] connector = "ParquetFileConnector" /\ file.kind = "parquet" ->
           [raises |-> FALSE, data |-> file.table]
      [] connector = "FeatherFileConnector" /\ file.kind = "feather" ->
           [raises |-> FALSE, data |-> file.table]
      [] connector = "PickleFileConnector" /\ file.kind = "pickle" ->
           [raises |-> FALSE, data |-> file.table]
      [] OTHER -> [raises |-> TRUE, data |-> None]

\* The heuristic is not running.
HeuristicIdle ==
    /\ distance_df = <<>>
    /\ population_df = <<>>
    /\ m = 0
    /\ m_assigned = <<>>
    /\ max_pwft = <<>>
    /\ pc = "idle"
    /\ err = ""
    /\ returned = <<>>
    /\ second = NotCalled
    /\ ProcessIdle

runVars == <<distance_df, population_df, m, m_assigned, max_pwft, pc, err, returned,
             second, processVars>>

\* A working directory without files; no call has been made.
InitFiles ==
    /\ HeuristicIdle
    /\ files = [filepath \in FilePaths |-> Absent]
    /\ tables = <<>>
    /\ containers = <<>>
    /\ call = NoCall

\* The file_type arguments a call passes with a path: None, or the path's
\* extension with or without its dot.
FileTypes(filepath) == {<<>>, suffix(filepath), Tail(suffix(filepath))}

\* The calls of a session name one path: the path of the call before.
SamePath(filepath) == IF call.op = "none" THEN TRUE ELSE call.filepath = filepath

\* The record of a call of save.
SaveCall(data_df, filepath, file_type, kwargs) ==
    [op |-> "save", data_df |-> data_df, filepath |-> filepath,
     file_type |-> file_type, kwargs |-> kwargs, returned |-> None]

\* Lines 43-63, PandasFileConnector.save(data_df, filepath, file_type, **kwargs)
\* when nothing raises: the connector of line 58 writes the file.
Save ==
    \E data_df \in SampleTables, filepath \in FilePaths, kwargs \in {NoKwargs, IndexFalse} :
    \E file_type \in FileTypes(filepath) :
        LET c == save_connector(filepath, file_type)
            w == Write(c.connector, data_df, kwargs)
        IN  /\ SamePath(filepath)
            /\ ~c.raises
            /\ ~w.raises
            /\ files' = [files EXCEPT ![filepath] = w.content]
            /\ call' = SaveCall(data_df, filepath, file_type, kwargs)
            /\ UNCHANGED <<runVars, tables, containers>>

\* Lines 55-63 when an assertion of lines 57-58 fails or the connector
\* raises: the exception is logged and save returns.
SaveRaises ==
    \E data_df \in SampleTables, filepath \in FilePaths, kwargs \in {NoKwargs, IndexFalse} :
    \E file_type \in FileTypes(filepath) :
        LET c == save_connector(filepath, file_type)
            w == Write(c.connector, data_df, kwargs)
        IN  /\ SamePath(filepath)
            /\ c.raises \/ w.raises
            /\ files' = IF ~c.raises /\ w.written
                          THEN [files EXCEPT ![filepath] = w.content]
                          ELSE files
            /\ call' = SaveCall(data_df, filepath, file_type, kwargs)
            /\ UNCHANGED <<runVars, tables, containers>>

\* The record of a call of load; after is the call of save that came just
\* before it, if one did.
LoadCall(filepath, file_type, data) ==
    [op |-> "load", filepath |-> filepath, file_type |-> file_type, returned |-> data,
     after |-> IF call.op = "save" THEN call ELSE NoCall]

\* Lines 17-38, PandasFileConnector.load(filepath, file_type) when nothing
\* raises: the data the connector of line 35 reads is returned.
Load ==
    \E filepath \in FilePaths : \E file_type \in FileTypes(filepath) :
        LET c == load_connector(filepath, file_type)
            r == Read(c.connector, files[filepath])
        IN  /\ SamePath(filepath)
            /\ ~c.raises
            /\ ~r.raises
            /\ call' = LoadCall(filepath, file_type, r.data)
            /\ UNCHANGED <<runVars, files, tables, containers>>

\* Lines 31-41 when an assertion fails or the connector raises: the exception
\* is logged and load returns None.
LoadRaises ==
    \E filepath \in FilePaths : \E file_type \in FileTypes(filepath) :
        LET c == load_connector(filepath, file_type)
            r == Read(c.connector, files[filepath])
        IN  /\ SamePath(filepath)
            /\ c.raises \/ r.raises
            /\ call' = LoadCall(filepath, file_type, None)
            /\ UNCHANGED <<runVars, files, tables, containers>>

\* os.remove(filepath), as the tests do after their load.
Remove ==
    \E filepath \in FilePaths :
        /\ SamePath(filepath)
        /\ files[filepath] # Absent
        /\ files' = [files EXCEPT ![filepath] = Absent]
        /\ call' = [op |-> "remove", filepath |-> filepath]
        /\ UNCHANGED <<runVars, tables, containers>>

NextFiles == Save \/ SaveRaises \/ Load \/ LoadRaises \/ Remove

SpecFiles == InitFiles /\ [][NextFiles]_vars

\* pd.DataFrame(records), as test_json rebuilds the table from the loaded
\* list of dicts; any other data is taken as it is.
Rebuilt(data) ==
    IF data.kind # "list" THEN data
    ELSE DataFrame(
           IF Len(data.items) = 0 THEN <<>>
           ELSE [c \in 1..Len(data.items[1]) |-> data.items[1][c][1]],
           [r \in 1..Len(data.items) |->
               [c \in 1..Len(data.items[r]) |-> data.items[r][c][2]]])

\* The suffixes of the formats csv, xlsx, json, txt, feather, parquet, pkl.
SupportedSuffixes ==
    {Dot \o ext : ext \in {csv, xlsx, json, txt, feather, parquet, pkl}}

\* The last call was load(path), and the call before it save(table, path),
\* neither with a file_type, path being of a supported format.
LoadedAfterSave ==
    /\ call.op = "load"
    /\ call.file_type = <<>>
    /\ call.after.op = "save"
    /\ call.after.file_type = <<>>
    /\ suffix(call.filepath) \in SupportedSuffixes

TestKwargs(filepath) ==
    IF suffix(filepath) \in {Dot \o csv, Dot \o xlsx, Dot \o txt}
      THEN IndexFalse ELSE NoKwargs

\* The table has a text column whose every cell reads as a number.
HasNumeralTextColumn(data_df) ==
    \E c \in 1..Len(data_df.columns) :
        \A r \in 1..Len(data_df.rows) :
            data_df.rows[r][c].dtype = "object" /\ IsNumeral(data_df.rows[r][c].value)

C16_SaveAcceptsFileTypeWithoutDot ==
    (/\ call.op = "save"
     /\ call.file_type \in {csv, xlsx, json, txt, pkl, parquet}
     /\ call.kwargs = NoKwargs) =>
        /\ ~load_connector(call.filepath, call.file_type).raises
        /\ files[call.filepath] =
              Write(load_connector(call.filepath, call.file_type).connector,
                    call.data_df, call.kwargs).content

-----------------------------------------------------------------------------
(* DatabaseConnector, src/base/data_connectors/DatabaseFileConnector.py.
   A database table is a list of column names and the list of its rows in
   the order of their insertion; a DataFrame is as in PandasFileConnector. *)

\* The database tables hold at most MaxTableRows rows.
MaxTableRows == 2

\* The table the calls work on.
TableNames == {"pytest_db"}

\* The column names 'id', 'col1' and 'col3'.
id == <<105, 100>>
col1 == <<99, 111, 108, 49>>
col3 == <<99, 111, 108, 51>>

\* "'" and "`"
Apostrophe == <<39>>
Backquote == <<96>>

\* The values of a row of data: a number in col1 and text in col3, the text
\* with or without an apostrophe.
DataRows == {<<Int64(1), Object(<<97>>)>>, <<Int64(2), Object(<<97, 39, 98>>)>>}

\* The position of the column called name.
ColumnIndex(columns, name) == CHOOSE c \in 1..Len(columns) : columns[c] = name

\* The values of a column of a table or of a DataFrame, row by row.
ColumnValues(t, name) ==
    [r \in 1..Len(t.rows) |-> t.rows[r][ColumnIndex(t.columns, name)].value]

\* engine.table_names(): the tables that exist.
table_names(db) == {t \in DOMAIN db : db[t] # Absent}

\* SELECT COUNT(*) in the place of SELECT MAX("id").
get_latest_id_Count(db, table_name, id_column) ==
    IF table_name \notin table_names(db) THEN 0 ELSE Len(db[table_name].rows)

\* Lines 228-246: get_latest_id(table_name, id_column)
get_latest_id(db, table_name, id_column) ==
    IF table_name \notin table_names(db) THEN 0
    ELSE IF Len(db[table_name].rows) = 0 THEN 0
    ELSE SetMax({ColumnValues(db[table_name], id_column)[r] :
                    r \in 1..Len(db[table_name].rows)})

\* data_df[name] = values: the column is overwritten where it stands, or
\* added as the last column.
set_column(data_df, name, values) ==
    IF InList(name, data_df.columns)
      THEN [data_df EXCEPT !.rows =
              [r \in 1..Len(data_df.rows) |->
                  [data_df.rows[r] EXCEPT ![ColumnIndex(data_df.columns, name)] =
                      Int64(values[r])]]]
      ELSE [data_df EXCEPT !.columns = Append(data_df.columns, name),
                           !.rows = [r \in 1..Len(data_df.rows) |->
                                        Append(data_df.rows[r], Int64(values[r]))]]

\* Line 269: data_df[[id_column] + [x for x in data_df.columns if x != id_column]]
id_column_first(data_df, id_column) ==
    LET k     == ColumnIndex(data_df.columns, id_column)
        order == <<k>> \o [j \in 1..(Len(data_df.columns) - 1) |-> IF j < k THEN j ELSE j + 1]
    IN  [data_df EXCEPT !.columns = [c \in 1..Len(order) |-> data_df.columns[order[c]]],
                        !.rows = [r \in 1..Len(data_df.rows) |->
                                     [c \in 1..Len(order) |-> data_df.rows[r][order[c]]]]]

\* The ids numbered from 1 whatever the table holds.
new_ids_FromOne(db, n, table_name, id_column, replace) == [r \in 1..n |-> r]

\* Lines 264-266: np.arange(1, n + 1), plus the latest id of the table unless
\* the table is to be replaced.
new_ids(db, n, table_name, id_column, replace) ==
    [r \in 1..n |->
        IF replace THEN r ELSE r + get_latest_id(db, table_name, id_column)]

\* Lines 248-272: _prepend_id(data_df, table_name, id_column, replace)
prepend_id(db, data_df, table_name, id_column, replace) ==
    IF table_name \notin table_names(db)
      THEN set_column(data_df, id_column, [r \in 1..Len(data_df.rows) |-> r])
      ELSE id_column_first(
             set_column(data_df, id_column,
                        new_ids(db, Len(data_df.rows), table_name, id_column, replace)),
             id_column)

\* The rows of data_df as rows of a table with the columns columns: each
\* value under the column of its name.
InsertedRows(data_df, columns) ==
    [r \in 1..Len(data_df.rows) |->
        [c \in 1..Len(columns) |-> data_df.rows[r][ColumnIndex(data_df.columns, columns[c])]]]

\* The table created from data_df.
CreatedTable(data_df) ==
    [kind |-> "table", columns |-> data_df.columns, rows |-> data_df.rows]

\* Line 101, data_df.to_sql(name, con, if_exists=if_exists, index=False): a
\* table that does not exist is created; one that exists is dropped and
\* created again ('replace'), is added the rows ('append'), or makes the call
\* raise ValueError ('fail'). An insert raises when data_df and the table do
\* not have the same columns.
to_sql(db, data_df, table_name, if_exists) ==
    IF table_name \notin table_names(db) \/ if_exists = "replace"
      THEN [raises |-> FALSE, db |-> [db EXCEPT ![table_name] = CreatedTable(data_df)]]
    ELSE IF if_exists = "append"
              /\ {data_df.columns[c] : c \in 1..Len(data_df.columns)}
                   = {db[table_name].columns[c] : c \in 1..Len(db[table_name].columns)}
      THEN [raises |-> FALSE,
            db |-> [db EXCEPT ![table_name].rows =
                       @ \o InsertedRows(data_df, db[table_name].columns)]]
    ELSE [raises |-> TRUE, db |-> db]

\* Lines 58-59, pd.read_sql('select * from <table>'): the rows of the table.
read_sql(db, table_name) ==
    DataFrame(db[table_name].columns, db[table_name].rows)

\* Line 151, str.replace(old, new) for one-character old and new.
replace(text, old, new) ==
    [k \in 1..Len(text) |-> IF text[k] = old[1] THEN new[1] ELSE text[k]]

\* Lines 136-152: the value the SET clause gives a column, from the cell of
\* data_df: a number is written as its digits and read back by the database,
\* text is written between quotes with its apostrophes replaced.
set_value(cell) ==
    IF cell.dtype = "int64" THEN Int64(int(str(cell.value)))
    ELSE Object(replace(cell.value, Apostrophe, Backquote))

\* Lines 154-160: UPDATE <table> SET <every column of data_df but the key>
\* WHERE "<key>" = <the key of row r of data_df>
sql_update(table, data_df, r, key) ==
    LET k == data_df.rows[r][ColumnIndex(data_df.columns, key)].value
    IN  [table EXCEPT !.rows =
           [j \in 1..Len(table.rows) |->
              IF table.rows[j][ColumnIndex(table.columns, key)].value # k
                THEN table.rows[j]
                ELSE [c \in 1..Len(table.columns) |->
                        IF table.columns[c] # key /\ InList(table.columns[c], data_df.columns)
                          THEN set_value(data_df.rows[r][ColumnIndex(data_df.columns,
                                                                     table.columns[c])])
                          ELSE table.rows[j][c]]]]

\* Line 169: DELETE FROM <table> WHERE <key> = k
sql_delete(table, key, k) ==
    [table EXCEPT !.rows =
        SelectSeq(table.rows, LAMBDA row : row[ColumnIndex(table.columns, key)].value # k)]

\* Line 129, data_df[key].unique(): the keys in the order of their first rows.
RECURSIVE unique(_)
unique(values) ==
    IF values = <<>> THEN <<>>
    ELSE LET front == unique(SubSeq(values, 1, Len(values) - 1))
         IN  IF InList(values[Len(values)], front) THEN front
             ELSE Append(front, values[Len(values)])

\* Line 130: data_df.loc[data_df[key] == k, :].copy()
subset(data_df, key, k) ==
    DataFrame(data_df.columns,
              SelectSeq(data_df.rows,
                        LAMBDA row : row[ColumnIndex(data_df.columns, key)].value = k))

\* Lines 129-174, the loop of update_table over the keys still to handle: one
\* UPDATE for a key with one row of data_df; for a key with several rows, new
\* ids for them, a DELETE of the table's rows of that key and an insert. A
\* statement on a table that does not exist raises, and the exception leaves
\* update_table.
RECURSIVE update_keys(_, _, _, _, _)
update_keys(db, data_df, table_name, key, keys) ==
    IF keys = <<>> THEN [raises |-> FALSE, db |-> db]
    ELSE IF table_name \notin table_names(db) THEN [raises |-> TRUE, db |-> db]
    ELSE LET rows == subset(data_df, key, keys[1])
         IN  IF Len(rows.rows) = 1
               THEN update_keys(
                      [db EXCEPT ![table_name] =
                          sql_update(@, data_df,
                                     CHOOSE r \in 1..Len(data_df.rows) :
                                        data_df.rows[r] = rows.rows[1],
                                     key)],
                      data_df, table_name, key, Tail(keys))
               ELSE LET numbered == prepend_id(db, rows, table_name, id, FALSE)
                        deleted  == [db EXCEPT ![table_name] = sql_delete(@, key, keys[1])]
                        inserted == to_sql(deleted, numbered, table_name, "append")
                    IN  IF inserted.raises THEN [raises |-> TRUE, db |-> deleted]
                        ELSE update_keys(inserted.db, data_df, table_name, key, Tail(keys))

\* Lines 113-177: update_table(data_df, table_name, update_based_on)
update_table(db, data_df, table_name, update_based_on) ==
    update_keys(db, data_df, table_name, update_based_on,
                unique(ColumnValues(data_df, update_based_on)))

\* The ids of the tables stay within 1..MaxId.
MaxId == MaxTableRows + 1

\* The data passed to save: no row, or up to as many rows of col1 and col3 as
\* the tests' sample_dataframe has.
SaveData ==
    {DataFrame(<<col1, col3>>, rows) :
        rows \in UNION {[1..n -> DataRows] : n \in 0..SampleLength}}

\* The data passed to update_table: one or two rows of id, col1 and col3, the
\* ids in rising order or twice the same.
UpdateData ==
    {DataFrame(<<id, col1, col3>>, rows) :
        rows \in {rows \in UNION {[1..n -> {<<Int64(k)>> \o row : k \in 1..MaxId,
                                                                  row \in DataRows}] :
                                     n \in 1..SampleLength} :
                    \A r \in 2..Len(rows) : rows[r - 1][1].value <= rows[r][1].value}}

\* What the database holds under the table's name before the first call:
\* nothing, or a table another program left there.
InitialTables ==
    {Absent,
     CreatedTable(DataFrame(<<id, col1, col3>>, <<>>)),
     CreatedTable(DataFrame(<<id, col1, col3>>,
                            <<<<Int64(MaxId - 1), Int64(1), Object(Apostrophe)>>>>))}

InitDb ==
    /\ HeuristicIdle
    /\ files = <<>>
    /\ tables \in [TableNames -> InitialTables]
    /\ containers = <<>>
    /\ call = NoCall

\* The table stays within the bounds: MaxTableRows rows, ids up to MaxId.
WithinBounds(table) ==
    table # Absent =>
        /\ Len(table.rows) <= MaxTableRows
        /\ \A r \in 1..Len(table.rows) : ColumnValues(table, id)[r] <= MaxId

\* The ids numbered after the latest id of the table whatever if_exists is.
replace_arg_Never(if_exists) == FALSE

\* Line 89: replace = True if if_exists == 'replace' else False
replace_arg(if_exists) == if_exists = "replace"

\* Lines 70-111, save(data_df, table_name, if_exists) with the default
\* id_column and no run_id, when nothing raises.
DbSave ==
    \E data_df \in SaveData, table_name \in TableNames,
       if_exists \in {"replace", "append", "fail"} :
        LET numbered == prepend_id(tables, data_df, table_name, id, replace_arg(if_exists))
            saved    == to_sql(tables, numbered, table_name, if_exists)
        IN  /\ ~saved.raises
            /\ WithinBounds(saved.db[table_name])
            /\ tables' = saved.db
            /\ call' = [op |-> "save", data_df |-> data_df, table_name |-> table_name,
                        if_exists |-> if_exists, before |-> tables[table_name],
                        raised |-> FALSE, engine_conn |-> "disposed",
                        returned |-> None]
            /\ UNCHANGED <<runVars, files, containers>>

\* Lines 85-111 when to_sql raises: the exception is logged and save returns.
DbSaveRaises ==
    \E data_df \in SaveData, table_name \in TableNames,
       if_exists \in {"replace", "append", "fail"} :
        LET numbered == prepend_id(tables, data_df, table_name, id, replace_arg(if_exists))
            saved    == to_sql(tables, numbered, table_name, if_exists)
        IN  /\ saved.raises
            /\ call' = [op |-> "save", data_df |-> data_df, table_name |-> table_name,
                        if_exists |-> if_exists, before |-> tables[table_name],
                        raised |-> FALSE, engine_conn |-> "disposed",
                        returned |-> None]
            /\ UNCHANGED <<runVars, files, tables, containers>>

\* Lines 113-177, update_table(data_df, table_name, update_based_on='id'):
\* the statements run one after the other; an exception leaves the call with
\* the statements before it done.
DbUpdateTable ==
    \E data_df \in UpdateData, table_name \in TableNames :
        LET updated == update_table(tables, data_df, table_name, id)
        IN  /\ WithinBounds(updated.db[table_name])
            /\ tables' = updated.db
            /\ call' = [op |-> "update_table", data_df |-> data_df,
                        table_name |-> table_name, update_based_on |-> id,
                        before |-> tables[table_name],
                        raised |-> updated.raises, returned |-> None]
            /\ UNCHANGED <<runVars, files, containers>>

\* Lines 228-246: get_latest_id(table_name)
DbGetLatestId ==
    \E table_name \in TableNames :
        /\ call' = [op |-> "get_latest_id", table_name |-> table_name, raised |-> FALSE,
                    returned |-> get_latest_id(tables, table_name, id)]
        /\ UNCHANGED <<runVars, files, tables, containers>>

\* Lines 37-68: load(table_name) returns the rows of the table; when the
\* table does not exist the query raises, the exception is logged and load
\* returns None.
DbLoad ==
    \E table_name \in TableNames :
        /\ call' = [op |-> "load", table_name |-> table_name, raised |-> FALSE,
                    engine_conn |-> "disposed",
                    returned |-> IF table_name \in table_names(tables)
                                   THEN read_sql(tables, table_name) ELSE None]
        /\ UNCHANGED <<runVars, files, tables, containers>>

NextDb == DbSave \/ DbSaveRaises \/ DbUpdateTable \/ DbGetLatestId \/ DbLoad

SpecDb == InitDb /\ [][NextDb]_vars

\* The rows of the table as load returns them.
Loaded(table_name) == read_sql(tables, table_name)

\* C17: after save(data, table, if_exists='replace') with the default id
\* column the table exists and loading it returns as many rows as data has,
\* row r holding the values of row r of data in the columns of data and r in
\* the column id, whatever the table held before.
C17_ReplaceSavesRowsWithIdsFromOne ==
    (call.op = "save" /\ call.if_exists = "replace") =>
        /\ call.table_name \in table_names(tables)
        /\ Len(Loaded(call.table_name).rows) = Len(call.data_df.rows)
        /\ \A r \in 1..Len(call.data_df.rows) :
              /\ ColumnValues(Loaded(call.table_name), id)[r] = r
              /\ \A c \in 1..Len(call.data_df.columns) :
                    Loaded(call.table_name).rows[r]
                        [ColumnIndex(Loaded(call.table_name).columns, call.data_df.columns[c])]
                      = call.data_df.rows[r][c]

\* Rows were saved over a table that held a row with an id greater than theirs.
C17_Witness ==
    /\ call.op = "save"
    /\ call.if_exists = "replace"
    /\ call.before # Absent
    /\ Len(call.before.rows) = 1
    /\ Len(call.data_df.rows) >= 1
    /\ ColumnValues(call.before, id)[1] > Len(call.data_df.rows)

\* The rows of data, none of which has the key of another.
UniqueKeys(data_df, key) ==
    \A r1, r2 \in 1..Len(data_df.rows) :
        ColumnValues(data_df, key)[r1] = ColumnValues(data_df, key)[r2] => r1 = r2

\* C18: after update_table(data, table, update_based_on=key) on a table that
\* exists, every key of data being in one row of data, the table has the rows
\* it had, with the keys they had; a row whose key is in data holds, in every
\* column of data but the key, the value of the row of data with that key; a
\* row whose key is not in data is as it was.
C18_UpdateSetsRowsToData ==
    (/\ call.op = "update_table"
     /\ call.before # Absent
     /\ UniqueKeys(call.data_df, call.update_based_on)) =>
        LET table == tables[call.table_name]
            key   == call.update_based_on
        IN  /\ ~call.raised
            /\ Len(table.rows) = Len(call.before.rows)
            /\ ColumnValues(table, key) = ColumnValues(call.before, key)
            /\ \A j \in 1..Len(table.rows) :
                  /\ (\A r \in 1..Len(call.data_df.rows) :
                         ColumnValues(call.data_df, key)[r] # ColumnValues(table, key)[j])
                       => table.rows[j] = call.before.rows[j]
                  /\ \A r \in 1..Len(call.data_df.rows) :
                        ColumnValues(call.data_df, key)[r] = ColumnValues(table, key)[j] =>
                            \A c \in 1..Len(call.data_df.columns) :
                                table.rows[j][ColumnIndex(table.columns, call.data_df.columns[c])]
                                  = call.data_df.rows[r][c]

\* C19: get_latest_id returns 0 when the table does not exist or has no
\* rows; otherwise it returns an id of the table that no id of the table
\* exceeds.
C19_LatestIdIsMaxOrZero ==
    call.op = "get_latest_id" =>
        IF call.table_name \notin table_names(tables) THEN call.returned = 0
        ELSE IF Len(tables[call.table_name].rows) = 0 THEN call.returned = 0
        ELSE /\ \E r \in 1..Len(tables[call.table_name].rows) :
                   ColumnValues(tables[call.table_name], id)[r] = call.returned
             /\ \A r \in 1..Len(tables[call.table_name].rows) :
                   ColumnValues(tables[call.table_name], id)[r] <= call.returned

\* get_latest_id was called on a table of two rows whose greatest id is not
\* the number of its rows.
C19_Witness ==
    /\ call.op = "get_latest_id"
    /\ call.table_name \in table_names(tables)
    /\ Len(tables[call.table_name].rows) = 2
    /\ call.returned > 2

\* ---------------------------------------------------------------------------
\* AzureBlobStorage (base/data_connectors/CloudFileConnector.py): a storage
\* account with one container name, and the local files the calls upload and
\* download.
\* ---------------------------------------------------------------------------

\* container_name='tests', as in the tests.
ContainerNames == {"tests"}

\* The names of the blobs: a file name, and a file name that begins with it.
BlobNames == {<<97, 46, 99, 115, 118>>, <<97, 46, 99, 115, 118, 46, 116, 120, 116>>}

\* blob_name='' (the default of load and download).
AllBlobs == <<>>

\* The local files save uploads; the last one does not exist.
UploadPaths == {<<120, 46, 99, 115, 118>>, <<121, 46, 99, 115, 118>>, <<122, 46, 99, 115, 118>>}

\* os.path.join(local_filepath_to_download, blob.name) of line 119, for the
\* folder 'tmp'.
download_file_path(blob) == <<116, 109, 112, 47>> \o blob

DownloadPaths == {download_file_path(blob) : blob \in BlobNames}

\* The table of a local file, written as test_save_blob writes it:
\* sample_dataframe.to_csv(tmp_local_file_dir, index=False)
UploadTable(v) == DataFrame(<<col1, col3>>, <<<<Int64(v), Object(<<97>>)>>>>)

LocalFiles ==
    [filepath \in UploadPaths \cup DownloadPaths |->
        IF filepath = <<120, 46, 99, 115, 118>> THEN to_csv(UploadTable(1), Comma, FALSE)
        ELSE IF filepath = <<121, 46, 99, 115, 118>> THEN to_csv(UploadTable(2), Comma, FALSE)
        ELSE Absent]

\* A container that exists and holds no blob.
EmptyContainer == [blob \in BlobNames |-> Absent]

\* container_client.exists()
container_exists(account, container_name) == account[container_name] # Absent

\* blob_client.exists(): False too when the container does not exist.
blob_exists(account, container_name, blob) ==
    /\ container_exists(account, container_name)
    /\ account[container_name][blob] # Absent

\* str.startswith
startswith(text, prefix) ==
    Len(prefix) <= Len(text) /\ SubSeq(text, 1, Len(prefix)) = prefix

\* The order of two names in a listing: by their characters.
RECURSIVE Before(_, _)
Before(a, b) ==
    IF a = <<>> THEN b # <<>>
    ELSE IF b = <<>> THEN FALSE
    ELSE IF a[1] # b[1] THEN a[1] < b[1]
    ELSE Before(Tail(a), Tail(b))

\* Lines 70 and 110, container_client.list_blobs(blob_name): the first
\* positional argument of list_blobs is name_starts_with, so the listing is of
\* the blobs whose name begins with blob_name, in the order of their names; it
\* raises when the container does not exist.
list_blobs(account, container_name, name_starts_with) ==
    IF ~container_exists(account, container_name)
      THEN [raises |-> TRUE, blobs |-> <<>>]
      ELSE LET S == {b \in BlobNames : /\ account[container_name][b] # Absent
                                       /\ startswith(b, name_starts_with)}
           IN  [raises |-> FALSE,
                blobs  |-> CHOOSE s \in [1..Cardinality(S) -> S] :
                             \A i, j \in 1..Cardinality(S) : i < j => Before(s[i], s[j])]

\* A float64 cell, and the cell of a column a table does not have.
Float64(v) == [dtype |-> "float64", value |-> v]
NaN == [dtype |-> "float64", value |-> "nan"]

\* Line 82, pd.concat([compiled_azure_df, azure_df], axis=0)
\* .reset_index(drop=True): the columns of both, the rows of the first and
\* then of the second, NaN where a table has no such column (an int64 column
\* becomes float64 then); a table without rows does not count, and None is
\* dropped.
concat(a, b) ==
    IF b = None THEN a
    ELSE
    LET Has(t, n) == \E c \in 1..Len(t.columns) : t.columns[c] = n
        columns == a.columns \o SelectSeq(b.columns, LAMBDA n : ~Has(a, n))
        Missing(n) == \/ Len(a.rows) > 0 /\ ~Has(a, n)
                      \/ Len(b.rows) > 0 /\ ~Has(b, n)
        Cell(t, r, n) ==
            IF ~Has(t, n) THEN NaN
            ELSE LET cell == t.rows[r][ColumnIndex(t.columns, n)]
                 IN  IF Missing(n) /\ cell.dtype = "int64" THEN Float64(cell.value) ELSE cell
        Rows(t) == [r \in 1..Len(t.rows) |-> [c \in 1..Len(columns) |-> Cell(t, r, columns[c])]]
    IN  DataFrame(columns, Rows(a) \o Rows(b))

\* Lines 80-81, PandasFileConnector.load(StringIO(text), file_type=
\* PandasFileConnector._check_filetype(blob.name)): the assertion of
\* _check_filetype raises here; what load itself raises it logs, and returns
\* None.
load_blob(blob, content) ==
    IF check_filetype(blob).raises THEN [raises |-> TRUE, data |-> None]
    ELSE LET c == load_connector(blob, check_filetype(blob).value)
             r == Read(c.connector, content)
         IN  [raises |-> FALSE, data |-> IF c.raises \/ r.raises THEN None ELSE r.data]

\* Lines 77-83: the loop over the listed blobs.
RECURSIVE load_blobs(_, _, _)
load_blobs(container, blobs, compiled_azure_df) ==
    IF blobs = <<>> THEN [raises |-> FALSE, data |-> compiled_azure_df]
    ELSE LET azure_df == load_blob(blobs[1], container[blobs[1]])
         IN  IF azure_df.raises THEN [raises |-> TRUE, data |-> None]
             ELSE load_blobs(container, Tail(blobs), concat(compiled_azure_df, azure_df.data))

\* Lines 66-88, load(container_name, blob_name): None when the listing raises
\* or is empty (line 71) or a blob's name has no known file type.
load(account, container_name, blob_name) ==
    LET my_blobs == list_blobs(account, container_name, blob_name)
    IN  IF my_blobs.raises \/ my_blobs.blobs = <<>> THEN None
        ELSE LET loaded == load_blobs(account[container_name], my_blobs.blobs,
                                      DataFrame(<<>>, <<>>))
             IN  IF loaded.raises THEN None ELSE loaded.data

\* Lines 107-127, download(local_filepath_to_download, container_name,
\* blob_name): every listed blob is written to a file of its name.
download(local, account, container_name, blob_name) ==
    LET my_blobs == list_blobs(account, container_name, blob_name)
    IN  IF my_blobs.raises THEN local
        ELSE [filepath \in DOMAIN local |->
                IF \E k \in 1..Len(my_blobs.blobs) :
                       filepath = download_file_path(my_blobs.blobs[k])
                  THEN account[container_name]
                           [CHOOSE b \in BlobNames : filepath = download_file_path(b)]
                  ELSE local[filepath]]

\* Lines 147-148: the container is created when it does not exist.
create_container(account, container_name) ==
    IF container_exists(account, container_name) THEN account
    ELSE [account EXCEPT ![container_name] = EmptyContainer]

\* Lines 153-154: open(local_file_to_upload, "rb") raises when there is no
\* such file, and upload_blob raises when the blob exists and overwrite is
\* False.
upload_raises(local, account, local_file_to_upload, container_name, blob_name, overwrite) ==
    \/ local[local_file_to_upload] = Absent
    \/ ~overwrite /\ blob_exists(account, container_name, blob_name)

\* Lines 141-159, save(local_file_to_upload, container_name, blob_name,
\* overwrite): the account after the call.
save(local, account, local_file_to_upload, container_name, blob_name, overwrite) ==
    LET created == create_container(account, container_name)
    IN  IF upload_raises(local, account, local_file_to_upload, container_name,
                         blob_name, overwrite)
          THEN created
          ELSE [created EXCEPT ![container_name][blob_name] = local[local_file_to_upload]]

\* Lines 201-204: delete_blob for each name in turn; it raises for a blob that
\* does not exist, which ends the loop.
RECURSIVE delete_blobs(_, _, _)
delete_blobs(account, container_name, blob_name) ==
    IF blob_name = <<>> THEN account
    ELSE IF ~blob_exists(account, container_name, blob_name[1]) THEN account
    ELSE delete_blobs([account EXCEPT ![container_name][blob_name[1]] = Absent],
                      container_name, Tail(blob_name))

\* The blob_name arguments of delete: a name (line 196 makes it a list of
\* one) or a list of two names.
DeleteArgs ==
    {<<b>> : b \in BlobNames}
    \cup {s \in BlobNames \X BlobNames : s[1] # s[2]}

\* The record of a call of an AzureBlobStorage method.
BlobCall(op, local_file, container_name, blob_name, overwrite, value) ==
    [op |-> op, local_file |-> local_file, container_name |-> container_name,
     blob_name |-> blob_name, overwrite |-> overwrite, returned |-> value]

\* The account has no container, or an empty one; the local files to upload
\* exist, nothing is downloaded, no call has been made.
InitBlob ==
    /\ HeuristicIdle
    /\ files = LocalFiles
    /\ tables = <<>>
    /\ containers \in {[c \in ContainerNames |-> Absent],
                       [c \in ContainerNames |-> EmptyContainer]}
    /\ call = NoCall

\* AzureBlobStorage.save when the upload is made.
BlobSave ==
    \E local_file \in UploadPaths, container_name \in ContainerNames,
       blob_name \in BlobNames, overwrite \in BOOLEAN :
        /\ ~upload_raises(files, containers, local_file, container_name, blob_name, overwrite)
        /\ containers' = save(files, containers, local_file, container_name, blob_name, overwrite)
        /\ call' = BlobCall("save", local_file, container_name, blob_name, overwrite, None)
        /\ UNCHANGED <<runVars, files, tables>>

\* AzureBlobStorage.save when the upload raises: the exception is logged
\* (lines 156-159), after the container was created.
BlobSaveRaises ==
    \E local_file \in UploadPaths, container_name \in ContainerNames,
       blob_name \in BlobNames, overwrite \in BOOLEAN :
        /\ upload_raises(files, containers, local_file, container_name, blob_name, overwrite)
        /\ containers' = save(files, containers, local_file, container_name, blob_name, overwrite)
        /\ call' = BlobCall("save raises", local_file, container_name, blob_name, overwrite, None)
        /\ UNCHANGED <<runVars, files, tables>>

\* AzureBlobStorage.check_exists
BlobCheckExists ==
    \E container_name \in ContainerNames, blob_name \in BlobNames :
        /\ call' = BlobCall("check_exists", <<>>, container_name, blob_name, TRUE,
                            blob_exists(containers, container_name, blob_name))
        /\ UNCHANGED <<runVars, files, tables, containers>>

\* AzureBlobStorage.load
BlobLoad ==
    \E container_name \in ContainerNames, blob_name \in BlobNames \cup {AllBlobs} :
        /\ call' = BlobCall("load", <<>>, container_name, blob_name, TRUE,
                            load(containers, container_name, blob_name))
        /\ UNCHANGED <<runVars, files, tables, containers>>

\* AzureBlobStorage.download
BlobDownload ==
    \E container_name \in ContainerNames, blob_name \in BlobNames \cup {AllBlobs} :
        /\ files' = download(files, containers, container_name, blob_name)
        /\ call' = BlobCall("download", <<>>, container_name, blob_name, TRUE, None)
        /\ UNCHANGED <<runVars, tables, containers>>

\* AzureBlobStorage.delete
BlobDelete ==
    \E container_name \in ContainerNames, blob_name \in DeleteArgs :
        /\ containers' = delete_blobs(containers, container_name, blob_name)
        /\ call' = BlobCall("delete", <<>>, container_name, blob_name, TRUE, None)
        /\ UNCHANGED <<runVars, files, tables>>

NextBlob ==
    BlobSave \/ BlobSaveRaises \/ BlobCheckExists \/ BlobLoad \/ BlobDownload \/ BlobDelete

SpecBlob == InitBlob /\ [][NextBlob]_vars

\* The call of the step is save(file, container_name, blob_name) for a local
\* file that exists, with the default overwrite=True.
SavesBlob(container_name, blob_name) ==
    /\ call'.op \in {"save", "save raises"}
    /\ call'.container_name = container_name
    /\ call'.blob_name = blob_name
    /\ call'.overwrite
    /\ files[call'.local_file] # Absent

\* The call of the step is delete for blob_name, alone or in a list.
DeletesBlob(container_name, blob_name) ==
    /\ call'.op = "delete"
    /\ call'.container_name = container_name
    /\ \E k \in 1..Len(call'.blob_name) : call'.blob_name[k] = blob_name

\* The call of the step is the method op for blob_name.
CallsFor(op, container_name, blob_name) ==
    /\ call'.op = op
    /\ call'.container_name = container_name
    /\ call'.blob_name = blob_name

\* The table PandasFileConnector reads from the saved content of the blob.
SavedTable(container_name, blob_name) ==
    load_blob(blob_name, containers[container_name][blob_name]).data

YamlPaths == {<<116, 109, 112, 46, 121, 109, 108>>}

\* Python values: an int, a str, a dict as its items <<key, value>> in the
\* order of insertion, and an exception instance of a class.
PyInt(v) == [type |-> "int", number |-> v]
PyStr(text) == [type |-> "str", text |-> text]
PyDict(items) == [type |-> "dict", items |-> items]
PyException(class) == [type |-> "Exception", class |-> class]

\* os.environ: HOME is set, UNSET is not.
environ == (<<72, 79, 77, 69>> :> <<47, 114, 111, 111, 116>>)

\* The keys and the values of the dicts saved: as in sample_data a name and a
\* number, besides a numeral as text and two texts that name a variable of
\* the environment.
SampleKeys == {PyStr(<<110, 97, 109, 101>>), PyStr(<<97, 103, 101>>)}
SampleValues ==
    {PyStr(<<74, 111, 104, 110>>), PyInt(31), PyStr(<<51, 49>>), PyStr(<<36, 123, 72, 79, 77, 69, 125>>), PyStr(<<36, 123, 85, 78, 83, 69, 84, 125>>)}

\* The dicts saved: one or two items; the keys of a dict differ.
SampleData ==
    {PyDict(<<<<k, v>>>>) : k \in SampleKeys, v \in SampleValues}
    \cup {PyDict(<<<<k[1], v[1]>>, <<k[2], v[2]>>>>) :
             k \in {p \in SampleKeys \X SampleKeys : p[1] # p[2]},
             v \in SampleValues \X SampleValues}

\* A file whose text is not YAML, such as 'name: ['.
NotYaml == [kind |-> "not yaml"]

\* Line 16 and line 61, env_pattern.findall(value) for
\* env_pattern = re.compile(r".*?\${(.*?)}.*?"): the texts between each '${'
\* and the first '}' after it, from left to right.
RECURSIVE findall(_)
findall(value) ==
    LET starts == {i \in 1..(Len(value) - 1) :
                      /\ value[i] = 36
                      /\ value[i + 1] = 123
                      /\ \E j \in (i + 2)..Len(value) : value[j] = 125}
    IN  IF starts = {} THEN <<>>
        ELSE LET i == SetMin(starts)
                 j == SetMin({k \in (i + 2)..Len(value) : value[k] = 125})
             IN  <<SubSeq(value, i + 2, j - 1)>> \o findall(SubSeq(value, j + 1, Len(value)))

\* str.replace(old, new) for a text old that is not empty.
RECURSIVE str_replace(_, _, _)
str_replace(text, old, new) ==
    IF Len(text) < Len(old) THEN text
    ELSE IF SubSeq(text, 1, Len(old)) = old
      THEN new \o str_replace(SubSeq(text, Len(old) + 1, Len(text)), old, new)
    ELSE <<text[1]>> \o str_replace(Tail(text), old, new)

\* Lines 61-62: for each group, value.replace(f"${{{group}}}",
\* os.environ.get(group)); os.environ.get gives None for a name that is not
\* set, and str.replace raises TypeError for it.
RECURSIVE replace_groups(_, _)
replace_groups(value, groups) ==
    IF groups = <<>> THEN [raises |-> FALSE, value |-> value]
    ELSE IF groups[1] \notin DOMAIN environ THEN [raises |-> TRUE, value |-> value]
    ELSE replace_groups(str_replace(value, <<36, 123>> \o groups[1] \o <<125>>, environ[groups[1]]),
                        Tail(groups))

\* Lines 59-63, env_constructor(loader, node)
env_constructor(value) == replace_groups(value, findall(value))

\* The tag yaml resolves a plain scalar to, with a class's implicit
\* resolvers: the resolvers of the scalar's first character come before
\* those added for every first character, as '!pathex' is (line 31, first
\* is None).
resolve(text, class, resolvers) ==
    IF IsNumeral(text) THEN "int"
    ELSE IF class \in resolvers /\ findall(text) # <<>> THEN "!pathex"
    ELSE "str"

\* How yaml.dump writes a scalar: a number as its digits, a text plain when
\* it resolves to a str with the Dumper's resolvers and between quotes when
\* it does not.
represent(value, resolvers) ==
    IF value.type = "int" THEN [text |-> str(value.number), style |-> "plain"]
    ELSE [text  |-> value.text,
          style |-> IF resolve(value.text, "Dumper", resolvers) = "str" THEN "plain" ELSE "quoted"]

\* Line 52, yaml.dump(data_dict, file, sort_keys=False): one line per item,
\* in the order of the dict.
yaml_dump(data_dict, resolvers) ==
    [kind  |-> "yaml",
     lines |-> [k \in 1..Len(data_dict.items) |->
                  [key   |-> represent(data_dict.items[k][1], resolvers),
                   value |-> represent(data_dict.items[k][2], resolvers)]]]

\* What the SafeLoader constructs from a scalar: a text between quotes is a
\* str, a plain one is what its tag makes of it.
construct(scalar, resolvers) ==
    IF scalar.style = "quoted" THEN [raises |-> FALSE, value |-> PyStr(scalar.text)]
    ELSE IF resolve(scalar.text, "SafeLoader", resolvers) = "int"
      THEN [raises |-> FALSE, value |-> PyInt(int(scalar.text))]
    ELSE IF resolve(scalar.text, "SafeLoader", resolvers) = "!pathex"
      THEN [raises |-> env_constructor(scalar.text).raises,
            value  |-> PyStr(env_constructor(scalar.text).value)]
    ELSE [raises |-> FALSE, value |-> PyStr(scalar.text)]

\* Line 33, yaml.safe_load(file): the dict of the file's items, or the
\* exception raised by the scanner or by a constructor.
safe_load(file, resolvers) ==
    IF file = NotYaml THEN [raises |-> TRUE, value |-> PyException("ScannerError")]
    ELSE IF \E k \in 1..Len(file.lines) :
               \/ construct(file.lines[k].key, resolvers).raises
               \/ construct(file.lines[k].value, resolvers).raises
      THEN [raises |-> TRUE, value |-> PyException("TypeError")]
    ELSE [raises |-> FALSE,
          value  |-> PyDict([k \in 1..Len(file.lines) |->
                               <<construct(file.lines[k].key, resolvers).value,
                                 construct(file.lines[k].value, resolvers).value>>])]

\* Lines 31-32: yaml.add_implicit_resolver and yaml.add_constructor with
\* Loader=yaml.SafeLoader; add_implicit_resolver adds the resolver to its
\* Dumper argument too, which defaults to yaml.Dumper.
add_implicit_resolver == {"SafeLoader", "Dumper"}

\* bool(value), as the assert of test_yaml takes the value load returned.
bool(value) ==
    IF value = None THEN FALSE
    ELSE IF value.type = "dict" THEN Len(value.items) > 0
    ELSE TRUE

\* The record of a call of YAMLFileConnector; after is the data of the save
\* that came just before a load.
YamlCall(op, data_dict, filepath, value, failed, raised) ==
    [op |-> op, data_dict |-> data_dict, filepath |-> filepath, returned |-> value,
     failed |-> failed, raised |-> raised,
     after |-> IF op = "load" /\ call.op = "save" THEN call.data_dict ELSE None]

\* The working directory has no tmp.yml or one that is not YAML; the process
\* has loaded no YAML file.
InitYaml ==
    /\ HeuristicIdle
    /\ files \in {[filepath \in YamlPaths |-> Absent], [filepath \in YamlPaths |-> NotYaml]}
    /\ tables = <<>>
    /\ containers = <<>>
    /\ call = NoCall

\* Lines 41-56, YAMLFileConnector.save(data_dict, filepath)
YamlSave ==
    \E data_dict \in SampleData, filepath \in YamlPaths :
        /\ files' = [files EXCEPT ![filepath] = yaml_dump(data_dict, yaml_implicit_resolvers)]
        /\ call' = YamlCall("save", data_dict, filepath, None, FALSE, FALSE)
        /\ UNCHANGED <<runVars, tables, containers>>

\* Lines 19-38, YAMLFileConnector.load(filepath) of a file that exists: the
\* dict is returned, or the exception that was raised (line 38).
YamlLoad ==
    \E filepath \in YamlPaths :
        /\ files[filepath] # Absent
        /\ yaml_implicit_resolvers' = yaml_implicit_resolvers \cup add_implicit_resolver
        /\ LET data_dict == safe_load(files[filepath],
                                      yaml_implicit_resolvers \cup add_implicit_resolver)
           IN  call' = YamlCall("load", None, filepath, data_dict.value,
                                data_dict.raises, FALSE)
        /\ UNCHANGED <<distance_df, population_df, m, m_assigned, max_pwft, pc, err, returned,
                       second, files, tables, containers, model, clients>>

\* Line 29, open(filepath, 'r') of a file that does not exist: it is outside
\* the try, and FileNotFoundError is raised to the caller.
YamlLoadRaises ==
    \E filepath \in YamlPaths :
        /\ files[filepath] = Absent
        /\ call' = YamlCall("load", None, filepath, None, TRUE, TRUE)
        /\ UNCHANGED <<runVars, files, tables, containers>>

\* os.remove('tmp.yml'), as test_yaml does after its load.
YamlRemove ==
    \E filepath \in YamlPaths :
        /\ files[filepath] # Absent
        /\ files' = [files EXCEPT ![filepath] = Absent]
        /\ call' = YamlCall("remove", None, filepath, None, FALSE, FALSE)
        /\ UNCHANGED <<runVars, tables, containers>>

NextYaml == YamlSave \/ YamlLoad \/ YamlLoadRaises \/ YamlRemove

SpecYaml == InitYaml /\ [][NextYaml]_vars

\* C21: a load made just after a save returns the data that was saved, its
\* items in the saved order, and does not raise; and what a load that failed
\* returns is not taken for data by the caller's test of it.
C21_LoadReturnsSavedMapping ==
    call.op = "load" =>
        /\ call.after # None => ~call.raised /\ call.returned = call.after
        /\ call.failed => ~bool(call.returned)

\* ---------------------------------------------------------------------------
\* AWSS3Bucket (base/data_connectors/CloudFileConnector.py): save uploads a
\* local file to a bucket. The buckets are kept in containers: bucket name ->
\* object key -> content.
\* ---------------------------------------------------------------------------

BucketNames == {"bucket"}

\* The names the calls pass, as object keys and as local paths.
ObjectNames == {<<97, 46, 99, 115, 118>>, <<98, 46, 99, 115, 118>>, <<99, 46, 99, 115, 118>>}

\* The local files: a.csv and b.csv hold different tables, c.csv may not
\* exist.
S3LocalFiles ==
    {[filepath \in ObjectNames |->
        IF filepath = <<97, 46, 99, 115, 118>> THEN to_csv(UploadTable(1), Comma, FALSE)
        ELSE IF filepath = <<98, 46, 99, 115, 118>> THEN to_csv(UploadTable(2), Comma, FALSE)
        ELSE c] : c \in {Absent, to_csv(UploadTable(3), Comma, FALSE)}}

\* A bucket that exists and holds no object.
EmptyBucket == [key \in ObjectNames |-> Absent]

\* Lines 288-291, s3_resource.create_bucket(Bucket=bucket_name, ...): a
\* bucket that does not exist is created. For a bucket that exists the
\* service either answers with the bucket or with the error
\* BucketAlreadyOwnedByYou, which boto3 raises.
create_bucket(s3, bucket_name) ==
    IF s3[bucket_name] = Absent
      THEN {[raises |-> FALSE, s3 |-> [s3 EXCEPT ![bucket_name] = EmptyBucket]]}
      ELSE {[raises |-> FALSE, s3 |-> s3], [raises |-> TRUE, s3 |-> s3]}

\* Line 292, s3_resource.Object(bucket_name, filepath_local)
\* .upload_file(Filename=filename_inAWS): the object's key is filepath_local
\* and the file that is uploaded is the local file named filename_inAWS.
upload_args(filename_inAWS, filepath_local) ==
    [Key |-> filepath_local, Filename |-> filename_inAWS]

\* upload_file raises when there is no local file of that name.
upload_file(local, s3, bucket_name, args) ==
    IF local[args.Filename] = Absent THEN [raises |-> TRUE, s3 |-> s3]
    ELSE [raises |-> FALSE,
          s3     |-> [s3 EXCEPT ![bucket_name][args.Key] = local[args.Filename]]]

\* The record of a call of AWSS3Bucket.save.
S3Call(op, bucket_name, filename_inAWS, filepath_local) ==
    [op |-> op, bucket_name |-> bucket_name, filename_inAWS |-> filename_inAWS,
     filepath_local |-> filepath_local]

\* The account has no bucket, or an empty one; no call has been made.
InitS3 ==
    /\ HeuristicIdle
    /\ files \in S3LocalFiles
    /\ tables = <<>>
    /\ containers \in {[b \in BucketNames |-> Absent], [b \in BucketNames |-> EmptyBucket]}
    /\ call = NoCall

\* Lines 274-297, AWSS3Bucket.save(bucket_name, filename_inAWS,
\* filepath_local) when nothing raises.
S3Save ==
    \E bucket_name \in BucketNames, filename_inAWS \in ObjectNames,
       filepath_local \in ObjectNames :
    \E created \in create_bucket(containers, bucket_name) :
        LET uploaded == upload_file(files, created.s3, bucket_name,
                                    upload_args(filename_inAWS, filepath_local))
        IN  /\ ~created.raises
            /\ ~uploaded.raises
            /\ containers' = uploaded.s3
            /\ call' = S3Call("save", bucket_name, filename_inAWS, filepath_local)
            /\ UNCHANGED <<runVars, files, tables>>

\* Lines 294-297: create_bucket or upload_file raises, the exception is
\* logged and save returns; the bucket create_bucket made is kept.
S3SaveRaises ==
    \E bucket_name \in BucketNames, filename_inAWS \in ObjectNames,
       filepath_local \in ObjectNames :
    \E created \in create_bucket(containers, bucket_name) :
        LET uploaded == upload_file(files, created.s3, bucket_name,
                                    upload_args(filename_inAWS, filepath_local))
        IN  /\ created.raises \/ uploaded.raises
            /\ containers' = created.s3
            /\ call' = S3Call("save raises", bucket_name, filename_inAWS, filepath_local)
            /\ UNCHANGED <<runVars, files, tables>>

NextS3 == S3Save \/ S3SaveRaises

SpecS3 == InitS3 /\ [][NextS3]_vars

\* C22: after AWSS3Bucket.save(bucket_name, filename_inAWS, filepath_local)
\* for a local file that exists at filepath_local, the bucket holds under the
\* key filename_inAWS the content of that file.
C22_SaveStoresLocalFileUnderKey ==
    (call.op \in {"save", "save raises"} /\ files[call.filepath_local] # Absent) =>
        /\ containers[call.bucket_name] # Absent
        /\ containers[call.bucket_name][call.filename_inAWS] = files[call.filepath_local]

-----------------------------------------------------------------------------
(* The tie-break of the heuristic with identifiers read as numbers *)

\* C23: with integer district identifiers, when several unassigned
\* candidates achieve the minimum worst-case cost of an iteration, the site
\* appended is the tied candidate whose identifier is the smallest number,
\* also when the tied identifiers differ in their number of digits.
C23_TieBrokenToSmallestNumber ==
    \A k \in 1..Len(m_assigned) :
        Cardinality(Best(Unassigned(k))) >= 2 =>
            /\ m_assigned[k] \in Best(Unassigned(k))
            /\ \A c \in Best(Unassigned(k)) : int(m_assigned[k]) <= int(c)

-----------------------------------------------------------------------------
(* The costs recorded by the iterations of one run *)

\* C24: on valid input the cost an iteration records is the cost a run with
\* unit_count = the number of that iteration reports on the same data; the
\* costs recorded are not monotone: on the 3-site example the second
\* iteration records 20 after the first recorded 15, so unit_count 2 reports
\* more than unit_count 1.
C24_LaterCostCanExceedEarlier ==
    [][(ValidInput /\ Len(m_assigned') = Len(m_assigned) + 1) =>
          /\ max_pwft' = run_heuristic_optimisation(distance_df, population_df,
                                                    Len(m_assigned'), <<>>, <<>>).max_pwft
          /\ (IsExample /\ Len(m_assigned) = 1) =>
                /\ max_pwft = <<15>>
                /\ max_pwft' = <<20>>
      ]_vars

\* The second iteration of a run on valid input has recorded a greater cost
\* than the first, which is the cost unit_count 1 reports on the same data.
C24_Witness ==
    /\ ValidInput
    /\ Len(m_assigned) = 2
    /\ max_pwft # <<>>
    /\ max_pwft[1] > run_heuristic_optimisation(distance_df, population_df,
                                                1, <<>>, <<>>).max_pwft[1]

-----------------------------------------------------------------------------
(* The solver-backed models OptimisationModelQ1 (src/or2/week6_q1.py) and
   OptimisationModelQ2 (src/or2/week6_q2.py): build_and_run defines the
   model and hands it to the solver, whose answer is any pair of a solver
   status and a termination condition. *)

\* pyomo.opt.SolverStatus
SolverStatus == {"ok", "warning", "error", "aborted", "unknown"}

\* pyomo.opt.TerminationCondition, the conditions cbc reports.
TerminationCondition ==
    {"optimal", "feasible", "infeasible", "unbounded", "maxTimeLimit", "error"}

\* The model classes; Q2 is built for m ambulances.
ModelClasses ==
    {[class |-> "OptimisationModelQ1", m |-> 0]}
    \cup {[class |-> "OptimisationModelQ2", m |-> units] : units \in 1..3}

\* The test of the solver's answer with its status alone.
solved_StatusOnly(results) == results.status = "ok"

\* Line 43 (Q2) and line 39 (Q1): results.solver.status == SolverStatus.ok
\* and results.solver.termination_condition == TerminationCondition.optimal
solved(results) ==
    results.status = "ok" /\ results.termination_condition = "optimal"

\* No model object exists.
InitSolver ==
    /\ HeuristicIdle
    /\ IoIdle

\* __init__ (Q2 lines 10-20, Q1 lines 13-16): the object has an empty
\* ConcreteModel, which has no attribute optimised, and no results.
Construct ==
    /\ model.pc = "none"
    /\ \E c \in ModelClasses :
          model' = [class |-> c.class, m |-> c.m, pc |-> "constructed", steps |-> <<>>,
                    results |-> None, optimised |-> "unset", error |-> ""]
    /\ UNCHANGED <<distance_df, population_df, m, m_assigned, max_pwft, pc, err, returned,
                   second, files, tables, containers, call, yaml_implicit_resolvers, clients>>

\* build_and_run is called on the object, for the first time or again, and
\* its first step _set_parameters has run (Q2 lines 24-25).
SetParameters ==
    /\ model.pc \in {"constructed", "returned", "raised"}
    /\ model' = [model EXCEPT !.pc = "_set_parameters", !.steps = <<"_set_parameters">>,
                              !.error = ""]
    /\ UNCHANGED <<distance_df, population_df, m, m_assigned, max_pwft, pc, err, returned,
                   second, files, tables, containers, call, yaml_implicit_resolvers, clients>>

\* Q2 line 26, Q1 line 22
SetConstraints ==
    /\ model.pc = "_set_parameters"
    /\ model' = [model EXCEPT !.pc = "_set_constraints",
                              !.steps = Append(@, "_set_constraints")]
    /\ UNCHANGED <<distance_df, population_df, m, m_assigned, max_pwft, pc, err, returned,
                   second, files, tables, containers, call, yaml_implicit_resolvers, clients>>

\* Q2 line 27, Q1 line 23
SetObjectiveFunction ==
    /\ model.pc = "_set_constraints"
    /\ model' = [model EXCEPT !.pc = "_set_objective_function",
                              !.steps = Append(@, "_set_objective_function")]
    /\ UNCHANGED <<distance_df, population_df, m, m_assigned, max_pwft, pc, err, returned,
                   second, files, tables, containers, call, yaml_implicit_resolvers, clients>>

\* Q2 lines 36-41: _solve_model runs the solver and keeps its results.
Solve ==
    /\ model.pc = "_set_objective_function"
    /\ \E status \in SolverStatus, condition \in TerminationCondition :
          model' = [model EXCEPT !.pc = "solved",
                                 !.steps = Append(@, "_solve_model"),
                                 !.results = [status |-> status,
                                              termination_condition |-> condition]]
    /\ UNCHANGED <<distance_df, population_df, m, m_assigned, max_pwft, pc, err, returned,
                   second, files, tables, containers, call, yaml_implicit_resolvers, clients>>

\* Q2 line 39 when the solver cannot be run (no cbc executable): opt.solve
\* raises and no results are kept.
SolveFails ==
    /\ model.pc = "_set_objective_function"
    /\ model' = [model EXCEPT !.pc = "raised", !.steps = Append(@, "_solve_model"),
                              !.error = "ApplicationError"]
    /\ UNCHANGED <<distance_df, population_df, m, m_assigned, max_pwft, pc, err, returned,
                   second, files, tables, containers, call, yaml_implicit_resolvers, clients>>

\* Q2 lines 43-45, 48 and 32: the test of line 43 holds, model.optimised is
\* set and build_and_run returns.
SolvedOptimal ==
    /\ model.pc = "solved"
    /\ solved(model.results)
    /\ model' = [model EXCEPT !.pc = "returned", !.optimised = "True"]
    /\ UNCHANGED <<distance_df, population_df, m, m_assigned, max_pwft, pc, err, returned,
                   second, files, tables, containers, call, yaml_implicit_resolvers, clients>>

\* Q2 lines 46-47: the test of line 43 fails and ValueError leaves
\* build_and_run.
SolvedOtherwise ==
    /\ model.pc = "solved"
    /\ ~solved(model.results)
    /\ model' = [model EXCEPT !.pc = "raised", !.error = "ValueError"]
    /\ UNCHANGED <<distance_df, population_df, m, m_assigned, max_pwft, pc, err, returned,
                   second, files, tables, containers, call, yaml_implicit_resolvers, clients>>

NextSolver ==
    \/ Construct
    \/ SetParameters \/ SetConstraints \/ SetObjectiveFunction
    \/ Solve \/ SolveFails
    \/ SolvedOptimal \/ SolvedOtherwise

SpecSolver == InitSolver /\ [][NextSolver]_vars

\* The solver's answer is status ok with termination condition optimal.
ReportedOptimal ==
    /\ model.results.status = "ok"
    /\ model.results.termination_condition = "optimal"

\* C25: in Q1 and Q2 the solver is run after parameters, constraints and
\* objective were set, in that order; build_and_run returns with
\* model.optimised set to True exactly when the solver answered ok and
\* optimal; for every other answer ValueError is raised and model.optimised
\* is left as it was; and no other step changes model.optimised.
C25_OptimisedOnlyAfterOptimal ==
    [][model.pc # "none" =>
          /\ model'.pc = "solved" =>
                model'.steps = <<"_set_parameters", "_set_constraints",
                                 "_set_objective_function", "_solve_model">>
          /\ (model.pc = "solved" /\ ReportedOptimal) =>
                /\ model'.pc = "returned"
                /\ model'.optimised = "True"
          /\ (model.pc = "solved" /\ ~ReportedOptimal) =>
                /\ model'.pc = "raised"
                /\ model'.error = "ValueError"
                /\ model'.optimised = model.optimised
          /\ model'.optimised # model.optimised =>
                model.pc = "solved" /\ ReportedOptimal
          /\ model'.pc = "returned" => model.pc = "solved" /\ ReportedOptimal
      ]_vars

\* The solver answered ok with a model that is infeasible: ValueError was
\* raised and model.optimised was never set.
C25_Witness ==
    /\ model.pc = "raised"
    /\ model.error = "ValueError"
    /\ model.results.status = "ok"
    /\ model.results.termination_condition = "infeasible"
    /\ model.optimised = "unset"
-----------------------------------------------------------------------------
(* The cost of the assignment made, and the exact model's optimum
   (week6_q2.py), with every weight taken under its site's identifier. *)

\* Every site is at distance zero from itself.
ZeroSelfDistance == \A i \in Sites : distance(i, i) = 0

\* week6_q2.py line 65 keys the populations by District: the weight of site i
\* is the population recorded under i's identifier.
population(i) == PopulationOf(distance_df.index[RowOfSite(i)])

\* week6_q2.py lines 96-127: with ambulances at the sites of A, the maximum
\* population-weighted firefighting time is the greatest, over the sites i, of
\* population(i) times the distance from i to its nearest site of A.
pwft_max(A) ==
    SetMax({SetMin({distance(i, a) * population(i) : a \in A}) : i \in Sites})

\* The optimum of the exact model: the least pwft_max over the placements of
\* units ambulances.
q2_max_pwft(units) ==
    SetMin({pwft_max(A) : A \in {B \in SUBSET Sites : Cardinality(B) = units}})

\* C26: on valid input with zero self-distance, the cost a finished run
\* reports is not below the minimax cost of the assignment it made, the
\* greatest over the sites i of weight(i) times the distance from i to the
\* nearest assigned site, and so not below the optimum of the exact model:
\* the optimality gap is not negative.
C26_ReportedCostNotBelowMinimaxCost ==
    (ValidInput /\ ZeroSelfDistance /\ pc = "done") =>
        /\ returned # <<>>
        /\ returned[1] >= pwft_max({m_assigned[k] : k \in 1..Len(m_assigned)})
        /\ returned[1] >= q2_max_pwft(m)
-----------------------------------------------------------------------------
(* PandasFileConnector: the calls that fail. *)

\* The call of save fails: an assertion of lines 57-58 fails, or the writer of
\* line 59 raises.
save_fails(filepath, file_type, data_df, kwargs) ==
    LET c == save_connector(filepath, file_type)
    IN  c.raises \/ Write(c.connector, data_df, kwargs).raises

\* The call of load fails: an assertion of lines 33-35 fails, or the reader of
\* line 36 raises.
load_fails(filepath, file_type, file) ==
    LET c == load_connector(filepath, file_type)
    IN  c.raises \/ Read(c.connector, file).raises

\* C27: load and save return to the caller whatever fails. A call of load
\* whose extension or file_type is not supported, or whose reader fails,
\* returns None; a call of save whose extension or file_type is not supported,
\* or whose writer fails, returns with the file at the path as it was before
\* the call: nothing was written, by its connector or by another.
C27_FailedCallsReturnNothingWritten ==
    [][/\ (call'.op = "load" /\ load_fails(call'.filepath, call'.file_type, files[call'.filepath])) =>
             (call'.returned = None /\ files' = files)
       /\ (call'.op = "save" /\ save_fails(call'.filepath, call'.file_type, call'.data_df, call'.kwargs)) =>
             (call'.returned = None /\ files' = files)
      ]_vars
-----------------------------------------------------------------------------
(* DatabaseConnector.load and save when the engine cannot be created or the
   database cannot be reached. engine_conn is the local name of lines 49 and
   97: "unbound" until _create_engine has returned, "created" then, and
   "disposed" after line 67 or 110. *)

\* What fails: _create_engine raises (lines 179-196: db_type has no entry in
\* sql_connectors, or create_engine cannot import the driver), or the engine
\* is created and every connection to the database fails.
Failures == {"create_engine", "connect"}

\* Lines 85-111 when _prepend_id (line 90) raises at line 260, where
\* self._create_engine().table_names() creates an engine and connects: the
\* exception is logged at line 107, and line 110 of the finally block reads
\* engine_conn, which line 97 never bound: UnboundLocalError leaves save.
DbSaveEngineFails ==
    \E data_df \in SaveData, table_name \in TableNames,
       if_exists \in {"replace", "append", "fail"}, failure \in Failures :
        /\ call' = [op |-> "save", data_df |-> data_df, table_name |-> table_name,
                    if_exists |-> if_exists, before |-> tables[table_name],
                    failure |-> failure,
                    raised |-> TRUE, engine_conn |-> "unbound",
                    returned |-> None]
        /\ UNCHANGED <<runVars, files, tables, containers>>

\* Lines 46-68 when line 49 or line 59 raises. When _create_engine raises,
\* line 64 logs and line 67 reads the unbound engine_conn: UnboundLocalError
\* leaves load. When the engine is created and read_sql cannot connect, line
\* 64 logs, line 67 disposes the engine and load returns None.
DbLoadEngineFails ==
    \E table_name \in TableNames, failure \in Failures :
        /\ call' = [op |-> "load", table_name |-> table_name,
                    failure |-> failure,
                    raised |-> failure = "create_engine",
                    engine_conn |-> IF failure = "create_engine" THEN "unbound"
                                    ELSE "disposed",
                    returned |-> None]
        /\ UNCHANGED <<runVars, files, tables, containers>>

NextEngine == DbSave \/ DbSaveRaises \/ DbLoad \/ DbSaveEngineFails \/ DbLoadEngineFails

SpecEngine == InitDb /\ [][NextEngine]_vars

\* C28: no call of load or save lets an exception reach its caller, whether
\* the query, the creation of the engine or the numbering of the ids before
\* it fails; a failed load returns None; and the engine the call created has
\* been disposed when it returns.
C28_LoadAndSaveNeverRaise ==
    call.op \in {"save", "load"} =>
        /\ ~call.raised
        /\ call.engine_conn # "created"
        /\ (call.op = "load" /\ "failure" \in DOMAIN call) => call.returned = None
-----------------------------------------------------------------------------
(* One client's calls of save on one table. *)

NextSaves == DbSave \/ DbSaveRaises

SpecSaves == InitDb /\ [][NextSaves]_vars

\* The ids of the rows of a table.
Ids(table) == ColumnValues(table, id)

\* The rows the call of save just made added to the table it found.
AddedRows ==
    IF call.before = Absent THEN {}
    ELSE (Len(call.before.rows) + 1)..Len(tables[call.table_name].rows)

\* C29: after the calls of save one client has made on a table, no two rows
\* of the table have the same id, and every row an append added has an id
\* greater than every id the table held before that append.
C29_IdsDistinctAndRising ==
    /\ \A t \in table_names(tables) :
          \A r1, r2 \in 1..Len(tables[t].rows) :
              Ids(tables[t])[r1] = Ids(tables[t])[r2] => r1 = r2
    /\ (call.op = "save" /\ call.if_exists = "append") =>
          \A r \in AddedRows : \A b \in 1..Len(call.before.rows) :
              Ids(tables[call.table_name])[r] > Ids(call.before)[b]

\* An append has added a row to a table that held a row whose id is not the
\* number of its rows.
C29_Witness ==
    /\ call.op = "save"
    /\ call.if_exists = "append"
    /\ AddedRows # {}
    /\ Len(call.before.rows) = 1
    /\ Ids(call.before)[1] > 1
    /\ Ids(tables[call.table_name])[2] = Ids(call.before)[1] + 1
-----------------------------------------------------------------------------
(* DatabaseConnector.log_run (lines 274-308) called without a run_id by two
   clients of one database. Of the columns of runs_df the model keeps id and
   task; server_name, user_name, the times and run_time_minutes take no part
   in the numbering. A call is three accesses to the database, between which
   the other client's accesses may fall: _prepend_id (line 90, reached from
   line 298), to_sql (line 101) and get_latest_id (line 299). *)

\* Every client makes at most MaxLogRuns calls of log_run.
MaxLogRuns == 2

\* The runs table, run_table_name='runs'.
runs == "runs"

\* The column name 'task' and the tasks logged: each client logs its own.
task == <<116, 97, 115, 107>>
TaskOf(c) == IF c = "c1" THEN <<116, 114, 97, 105, 110>> ELSE <<112, 114, 101, 100, 105, 99, 116>>

\* Lines 286-294: runs_df, one row whose id is run_id, None for a new run.
runs_df(c) == DataFrame(<<id, task>>, <<<<Object(<<>>), Object(TaskOf(c))>>>>)

\* The runs table before the first call: none, or a table holding the row of
\* an earlier run.
InitialRuns ==
    {Absent,
     CreatedTable(DataFrame(<<id, task>>, <<<<Int64(1), Object(<<100, 111, 119, 110, 108, 111, 97, 100>>)>>>>))}

InitRuns ==
    /\ HeuristicIdle
    /\ files = <<>>
    /\ tables \in [{runs} -> InitialRuns]
    /\ containers = <<>>
    /\ call = NoCall

\* Lines 297-298 and 85-90: log_run is called for a new run, save is entered
\* with if_exists='append' and _prepend_id numbers the row after the latest id
\* it reads.
LogRunPrependId(c) ==
    /\ clients[c].pc \in {"idle", "returned"}
    /\ (IF clients[c].pc = "idle" THEN 0 ELSE clients[c].calls) < MaxLogRuns
    /\ clients' = [clients EXCEPT ![c] =
          [pc      |-> "_prepend_id",
           calls   |-> (IF clients[c].pc = "idle" THEN 0 ELSE clients[c].calls) + 1,
           runs_df |-> prepend_id(tables, runs_df(c), runs, id, replace_arg("append")),
           run_id  |-> 0]]
    /\ UNCHANGED <<distance_df, population_df, m, m_assigned, max_pwft, pc, err, returned,
                   second, files, tables, containers, call, yaml_implicit_resolvers, model>>

\* Lines 97-111: to_sql appends the numbered row; an exception is logged.
LogRunToSql(c) ==
    /\ clients[c].pc = "_prepend_id"
    /\ LET saved == to_sql(tables, clients[c].runs_df, runs, "append")
       IN  tables' = IF saved.raises THEN tables ELSE saved.db
    /\ clients' = [clients EXCEPT ![c].pc = "to_sql"]
    /\ UNCHANGED <<distance_df, population_df, m, m_assigned, max_pwft, pc, err, returned,
                   second, files, containers, call, yaml_implicit_resolvers, model>>

\* Lines 299 and 308: run_id = self.get_latest_id(run_table_name); return run_id
LogRunLatestId(c) ==
    /\ clients[c].pc = "to_sql"
    /\ clients' = [clients EXCEPT ![c].pc = "returned",
                                  ![c].run_id = get_latest_id(tables, runs, id)]
    /\ UNCHANGED <<distance_df, population_df, m, m_assigned, max_pwft, pc, err, returned,
                   second, files, tables, containers, call, yaml_implicit_resolvers, model>>

NextRuns ==
    \E c \in Clients : LogRunPrependId(c) \/ LogRunToSql(c) \/ LogRunLatestId(c)

SpecRuns == InitRuns /\ [][NextRuns]_vars

\* The rows of the runs table with the id run_id.
RowsWithId(run_id) ==
    {r \in 1..Len(tables[runs].rows) : Ids(tables[runs])[r] = run_id}

\* C30: a call of log_run for a new run returns the id of the row it
\* inserted, also when the calls of two clients interleave: the id returned
\* is the one the call's row was inserted with, the rows of the runs table
\* with that id are that one row of the caller, and the ids the two clients'
\* calls returned differ.
C30_LogRunReturnsOwnRowId ==
    /\ \A c \in Clients :
          clients[c].pc = "returned" =>
              /\ clients[c].run_id = Ids(clients[c].runs_df)[1]
              /\ Cardinality(RowsWithId(clients[c].run_id)) = 1
              /\ \A r \in RowsWithId(clients[c].run_id) :
                    ColumnValues(tables[runs], task)[r] = TaskOf(c)
    /\ (clients["c1"].pc = "returned" /\ clients["c2"].pc = "returned") =>
          clients["c1"].run_id # clients["c2"].run_id

====
